---- MODULE Spec2Model ----
(***************************************************************************)
(* A model of the case runner of src/common/framework/test_group.ts:       *)
(* RunCaseSpecific.run(), the per-subcase lifecycle RunCaseSpecific        *)
(* .runTest() (beginSubCase, fixture constructor, init, test body,         *)
(* finalize, endSubCase) and the expectation matching getExpectedStatus(). *)
(*                                                                         *)
(* run() and each runTest() call are coroutines: every await is a point    *)
(* where the coroutine is suspended, so each awaited step is an action of  *)
(* its own.  The result of every step that runs test-author code (the      *)
(* fixture constructor, init, the body, finalize) is an input: it returns, *)
(* throws an error or throws SkipTestCase.                                 *)
(***************************************************************************)
EXTENDS Integers, Sequences, FiniteSets, TLC

\* Largest number of subcases one case enumerates.
MaxSubcases == 2

\* Largest number of expectation declarations handed to run().
MaxExpectations == 2

VARIABLES
    hasSubcases,    \* this.subcases is not undefined
    numSubcases,    \* the number of entries this.subcases yields
    expectations,   \* the expectation of each declaration handed to run()
    runPc,          \* where run() is
    idx,            \* the subcase the loop of run() is at (1-based; 0 before)
    totalCount,     \* run(): let totalCount
    skipCount,      \* run(): let skipCount
    runEx,          \* the exception run() holds (in its catch, or thrown by it)
    runResult,      \* "pending", "returned" or "threw": how run() ended
    ordering,       \* compareQueries(exp.query, query) of each declaration,
                    \* for the query getExpectedStatus was just called with
    att,            \* per attempt (0: the case without subcases): the frame of
                    \* its runTest() call and what the recorder logged for it
    hist,           \* per attempt: what run() has done for it so far
    recCalls,       \* the calls made on the recorder that shape its lifecycle
    rec,            \* the recorder of the case: its statuses and its result
    logger,         \* the messages a recorder holds, and the log calls made on it
    group,          \* a TestGroup: seen, tests, and the test() calls made on it
    validation,     \* a TestBuilder under validate(): its body, its cases, the result
    builder,        \* a TestBuilder: testFn, description, and the calls made on it
    check,          \* a checkElementsEqual call: its two arrays and what it returned
    paramTest,      \* a TestBuilder: testCases, what validate() enumerated, the
                    \* RunCases iterate() yielded, and the calls made on it
    worker,         \* the test worker: the message handlers started and the
                    \* replies posted
    between,         \* one checkElementsBetween call: the array, the two arrays of
                    \* bounds, and what the call returned
    table           \* one generatePrettyTable call: its arguments, its locals
                    \* and what it returned

\* The state of one run() call.
runVars == << hasSubcases, numSubcases, expectations, runPc, idx, totalCount,
              skipCount, runEx, runResult, ordering, att, hist, recCalls, rec >>

vars == << runVars, logger, group, validation, builder, check, paramTest, worker, between, table >>

\* What run() and runTest() leave alone.
notRun == << logger, group, validation, builder, check, paramTest, worker, between, table >>

\* What logging a message leaves alone.
notLogger == << runVars, group, validation, builder, check, paramTest, worker, between, table >>

\* What the calls on a TestGroup leave alone.
notGroup == << runVars, logger, validation, builder, check, paramTest, worker, between, table >>

\* What TestBuilder.validate() leaves alone.
notValidation == << runVars, logger, group, builder, check, paramTest, worker, between, table >>

\* What desc(), fn() and unimplemented() leave alone.
notBuilder == << runVars, logger, group, validation, check, paramTest, worker, between, table >>

\* What a content check leaves alone.
notCheck == << runVars, logger, group, validation, builder, paramTest, worker, between, table >>

\* What cases(), subcases(), params2(), validate(), iterate() and the run of
\* a RunCase leave alone.
notParamTest == << runVars, logger, group, validation, builder, check, worker, between, table >>

\* What the message handlers of the worker leave alone.
notWorker == << runVars, logger, group, validation, builder, check, paramTest, between, table >>

\* What checkElementsBetween leaves alone.
notBetween == << runVars, logger, group, validation, builder, check, paramTest, worker, table >>

\* What generatePrettyTable leaves alone.
notTable == << runVars, logger, group, validation, builder, check, paramTest, worker, between >>

----------------------------------------------------------------------------
(* Values *)

\* query/compare.ts: enum Ordering, as used at test_group.ts:358-359.
Ordering == {"Unordered", "StrictSuperset", "Equal", "StrictSubset"}

\* logging/result.ts: TestQueryWithExpectation.expectation, test_group.ts:363-374.
DeclaredExpectation == {"skip", "fail"}

\* How a step that runs test-author code ends: it returns, throws an error
\* other than SkipTestCase, or throws SkipTestCase.
Outcomes == {"ok", "error", "skip"}

\* The steps of one attempt that run test-author code.
Phases == {"ctor", "init", "body", "finalize"}

\* The attempts of one run(): attempt i is subcase i, attempt 0 the single
\* runTest() call of a case without subcases.
Attempts == 0 .. MaxSubcases

\* No exception in flight.
NoEx == [origin |-> "none", kind |-> "none"]

\* An exception: which step threw it, and whether it is a SkipTestCase.
Ex(origin, kind) == [origin |-> origin, kind |-> kind]

IsSkipTestCase(ex) == ex.kind = "skip"

SeqsUpTo(S, n) == UNION { [1 .. k -> S] : k \in 0 .. n }

----------------------------------------------------------------------------
(* getExpectedStatus, test_group.ts:355-377 *)

\* The declarations as getExpectedStatus sees them for one query.
Declarations(exps, ords) ==
    [k \in 1 .. Len(exps) |-> [ordering |-> ords[k], expectation |-> exps[k]]]

\* Ignored without the StrictSubset test: only Unordered declarations are passed over.
IgnoredOnlyUnordered(ord) == ord = "Unordered"

\* line 359: the orderings for which the loop continues to the next declaration.
Ignored(ord) == ord = "Unordered" \/ ord = "StrictSubset"

\* The loop returning at the first declaration it does not pass over, whatever
\* that declaration says: a 'fail' ahead of a 'skip' wins.
GetExpectedStatusFirstMatch(decls, k, didSeeFail) ==
    LET first == { n \in k .. Len(decls) : ~ Ignored(decls[n].ordering) }
    IN  IF first = {}
        THEN (IF didSeeFail THEN "fail" ELSE "pass")
        ELSE decls[CHOOSE n \in first : \A m \in first : n <= m].expectation

\* The loop honouring a 'fail' only from a declaration of exactly this query:
\* a 'fail' declared for a broader query does not set the flag.
RECURSIVE GetExpectedStatusFailOnlyEqual(_, _, _)
GetExpectedStatusFailOnlyEqual(decls, k, didSeeFail) ==
    IF k > Len(decls)
    THEN (IF didSeeFail THEN "fail" ELSE "pass")
    ELSE IF Ignored(decls[k].ordering)
         THEN GetExpectedStatusFailOnlyEqual(decls, k + 1, didSeeFail)
         ELSE IF decls[k].expectation = "skip"
              THEN "skip"
              ELSE GetExpectedStatusFailOnlyEqual(
                       decls, k + 1, didSeeFail \/ decls[k].ordering = "Equal")

\* The loop in which the last declaration that is not passed over decides.
GetExpectedStatusLastMatch(decls, k, didSeeFail) ==
    LET matching == { n \in k .. Len(decls) : ~ Ignored(decls[n].ordering) }
    IN  IF matching = {}
        THEN (IF didSeeFail THEN "fail" ELSE "pass")
        ELSE decls[CHOOSE n \in matching : \A m \in matching : n >= m].expectation

\* lines 356-376: the loop from declaration k on, didSeeFail being the flag.
RECURSIVE GetExpectedStatusFrom(_, _, _)
GetExpectedStatusFrom(decls, k, didSeeFail) ==
    IF k > Len(decls)
    THEN (IF didSeeFail THEN "fail" ELSE "pass")
    ELSE IF Ignored(decls[k].ordering)
         THEN GetExpectedStatusFrom(decls, k + 1, didSeeFail)
         ELSE IF decls[k].expectation = "skip"
              THEN "skip"
              ELSE GetExpectedStatusFrom(decls, k + 1, TRUE)

GetExpectedStatus(decls) == GetExpectedStatusFrom(decls, 1, FALSE)

----------------------------------------------------------------------------
(* The recorder of one case, logging/test_case_recorder.ts *)

\* The statuses the recorder combines, the worse of two winning: a failure
\* outweighs a skip, a skip outweighs a pass.
Worse(a, b) ==
    IF a = "fail" \/ b = "fail" THEN "fail"
    ELSE IF a = "skip" \/ b = "skip" THEN "skip"
    ELSE "pass"

\* A recorder before start(): status is the result finish() computes.
RecInit ==
    [ inSubCase       |-> FALSE,
      subCaseStatus   |-> "pass",
      finalCaseStatus |-> "pass",
      warned          |-> FALSE,
      status          |-> "none" ]

\* start() resets the aggregate status.
RecStart(r) == RecInit

RecBeginSubCase(r) == [r EXCEPT !.inSubCase = TRUE, !.subCaseStatus = "pass"]

\* A message of the given level: it counts for the subcase that is open, and
\* for the case when none is.
RecLog(r, level) ==
    IF r.inSubCase
    THEN [r EXCEPT !.subCaseStatus = Worse(@, level)]
    ELSE [r EXCEPT !.finalCaseStatus = Worse(@, level)]

RecSkipped(r) == RecLog(r, "skip")

\* threw(ex): a SkipTestCase is recorded as a skip, anything else as a failure.
RecThrew(r, ex) == IF IsSkipTestCase(ex) THEN RecSkipped(r) ELSE RecLog(r, "fail")

\* warn(ex): advisory text, which does not change the status.
RecWarn(r) == [r EXCEPT !.warned = TRUE]

\* endSubCase(): the outcome of the subcase goes into that of the case.
RecEndSubCase(r) ==
    [r EXCEPT !.inSubCase = FALSE,
              !.finalCaseStatus = Worse(@, r.subCaseStatus)]

\* finish(): the result of the case.
RecFinish(r) == [r EXCEPT !.status = r.finalCaseStatus]

----------------------------------------------------------------------------
(* runTest, test_group.ts:308-348 *)

AttInit ==
    [ pc        |-> "idle",
      throwSkip |-> FALSE,
      expected  |-> "none",
      ex        |-> NoEx,
      thrown    |-> NoEx,
      outcome   |-> [p \in Phases |-> "none"],
      calls     |-> [p \in Phases |-> 0],
      inst      |-> 0,
      log       |-> << >> ]

\* What run() has done for one subcase: the loop iterations made for it, the
\* runTest() calls made for it, how its iteration ended, the fixture instance
\* constructed for it (0: none), how its body ended and the instance the body
\* was handed.
HistInit ==
    [ iterations   |-> 0,
      runTestCalls |-> 0,
      end          |-> "none",
      inst         |-> 0,
      body         |-> "none",
      bodyInst     |-> 0 ]

\* The number of fixture instances constructed so far in this run().
Constructed(h) == Cardinality({ j \in Attempts : h[j].inst # 0 })

\* One fixture instance kept for the whole case: every construction after the
\* first yields the first instance again.
FixtureOfCase(n) == 1

\* line 319: new this.fixture(rec, params) is an object of its own: the
\* instances of one run() are numbered in the order of their construction.
NewFixture(n) == n + 1

\* The UnexpectedPassError handed to rec.threw as any other exception is.
UnexpectedPassThrew == "threw"

\* lines 341-346: the recorder call that takes the UnexpectedPassError.
UnexpectedPassCall == "warn"

\* A call on the recorder that takes an exception, by its name.
RecApply(r, call, ex) ==
    CASE call = "threw"   -> RecThrew(r, ex)
      [] call = "skipped" -> RecSkipped(r)
      [] call = "warn"    -> RecWarn(r)
      [] call = "info"    -> r

\* runTest() has returned or thrown.
Settled(a) == a.pc = "returned" \/ a.pc = "threw"

\* runTest() has been called and has not settled yet.
InLifecycle(a) ==
    a.pc \in {"begin", "init", "body", "finalize", "catch", "endSubCase"}

\* A call on the recorder made by runTest() for attempt i.
RecCall(call, i) == [call |-> call, att |-> i]

\* A call on the recorder made by run() for the case as a whole.
CaseCall(call) == [call |-> call]

LogEntry(call, ex) == [call |-> call, ex |-> ex]

\* AfterPhase without the finally block: finalize() is reached only when
\* neither init nor the body threw.
AfterPhaseNoFinally(phase, o) ==
    IF o # "ok" THEN "catch"
    ELSE IF phase = "init" THEN "body" ELSE "finalize"

\* lines 321-328: where the inner try block goes after init or the body ended
\* with outcome o: on to the body after init returned, else to the finally block.
AfterPhase(phase, o) ==
    IF phase = "init" /\ o = "ok" THEN "body" ELSE "finalize"

\* FinallyResult keeping the first exception: what finalize() throws is dropped
\* when init or the body has thrown already.
FinallyResultKeepsFirst(pending, o) ==
    IF pending # NoEx THEN pending
    ELSE IF o = "ok" THEN NoEx ELSE Ex("finalize", o)

\* lines 325-328: the exception that leaves the inner try/finally, pending being
\* what init or the body threw and o how finalize() ended.  An exception thrown
\* inside a finally block replaces the one that was propagating.
FinallyResult(pending, o) ==
    IF o = "ok" THEN pending ELSE Ex("finalize", o)

\* line 334: the catch block throws the exception on instead of recording it.
Rethrows(throwSkip, ex) == throwSkip /\ IsSkipTestCase(ex)

\* The recorder's endSubCase: UnexpectedPassError is thrown when the expected
\* status is 'fail' and nothing failed in the subcase.
UnexpectedPass(a) ==
    /\ a.expected = "fail"
    /\ ~ \E k \in 1 .. Len(a.log) :
            a.log[k].call = "threw" /\ a.log[k].ex.kind = "error"

\* runTest() without the check of lines 316-318.
NeverSkippedByExpectation(expected) == FALSE

\* lines 316-318: if (expectedStatus === 'skip') throw new SkipTestCase(...).
SkippedByExpectation(expected) == expected = "skip"

\* lines 314-319: beginSubCase, the skip by expectation, the fixture constructor.
\* getExpectedStatus has returned by now: the orderings it worked on are gone.
Begin(i) ==
    /\ att[i].pc = "begin"
    /\ recCalls' = Append(recCalls, RecCall("beginSubCase", i))
    /\ ordering' = << >>
    /\ IF SkippedByExpectation(att[i].expected)
       THEN /\ att' = [att EXCEPT ![i].pc = "catch",
                                  ![i].ex = Ex("expectation", "skip")]
            /\ hist' = hist
       ELSE \E o \in Outcomes :
              LET inst == IF o = "ok" THEN NewFixture(Constructed(hist)) ELSE 0
              IN  /\ att' = [att EXCEPT
                               ![i].outcome["ctor"] = o,
                               ![i].calls["ctor"] = @ + 1,
                               ![i].inst = inst,
                               ![i].ex = IF o = "ok" THEN NoEx ELSE Ex("ctor", o),
                               ![i].pc = IF o = "ok" THEN "init" ELSE "catch"]
                  /\ hist' = [hist EXCEPT ![i].inst = inst]
    /\ rec' = RecBeginSubCase(rec)
    /\ UNCHANGED << hasSubcases, numSubcases, expectations, runPc, idx,
                    totalCount, skipCount, runEx, runResult, notRun >>

\* line 322: await inst.init()
InitFixture(i) ==
    /\ att[i].pc = "init"
    /\ \E o \in Outcomes :
          att' = [att EXCEPT
                    ![i].outcome["init"] = o,
                    ![i].calls["init"] = @ + 1,
                    ![i].ex = IF o = "ok" THEN NoEx ELSE Ex("init", o),
                    ![i].pc = AfterPhase("init", o)]
    /\ UNCHANGED << hasSubcases, numSubcases, expectations, runPc, idx,
                    totalCount, skipCount, runEx, runResult, ordering, hist,
                    recCalls, rec, notRun >>

\* A body that may end in any way, whatever the test.
AnyBodyOutcome(testFn) == Outcomes

\* lines 193-195: the body unimplemented() attaches throws SkipTestCase('test
\* unimplemented'); any other body returns, throws, or throws SkipTestCase.
BodyOutcomes(testFn) == IF testFn = "unimplemented" THEN {"skip"} ELSE Outcomes

\* line 324: await this.fn(inst)
Body(i) ==
    /\ att[i].pc = "body"
    /\ \E o \in BodyOutcomes(builder.testFn) :
          /\ att' = [att EXCEPT
                    ![i].outcome["body"] = o,
                    ![i].calls["body"] = @ + 1,
                    ![i].ex = IF o = "ok" THEN NoEx ELSE Ex("body", o),
                    ![i].pc = AfterPhase("body", o)]
          /\ hist' = [hist EXCEPT ![i].body = o, ![i].bodyInst = att[i].inst]
    /\ UNCHANGED << hasSubcases, numSubcases, expectations, runPc, idx,
                    totalCount, skipCount, runEx, runResult, ordering,
                    recCalls, rec, notRun >>

\* lines 325-328: finally { await inst.finalize() }
Finalize(i) ==
    /\ att[i].pc = "finalize"
    /\ \E o \in Outcomes :
          LET ex == FinallyResult(att[i].ex, o) IN
          att' = [att EXCEPT
                    ![i].outcome["finalize"] = o,
                    ![i].calls["finalize"] = @ + 1,
                    ![i].ex = ex,
                    ![i].pc = IF ex = NoEx THEN "endSubCase" ELSE "catch"]
    /\ UNCHANGED << hasSubcases, numSubcases, expectations, runPc, idx,
                    totalCount, skipCount, runEx, runResult, ordering, hist,
                    recCalls, rec, notRun >>

\* Catch without the finally block around it: a SkipTestCase thrown on leaves
\* runTest() at once, endSubCase being reached only when nothing is thrown on.
CatchNoFinally(i) ==
    /\ att[i].pc = "catch"
    /\ att' = IF Rethrows(att[i].throwSkip, att[i].ex)
              THEN [att EXCEPT ![i].thrown = att[i].ex,
                               ![i].ex = NoEx,
                               ![i].pc = "threw"]
              ELSE [att EXCEPT ![i].log = Append(@, LogEntry("threw", att[i].ex)),
                               ![i].ex = NoEx,
                               ![i].pc = "endSubCase"]
    /\ rec' = IF Rethrows(att[i].throwSkip, att[i].ex)
              THEN rec
              ELSE RecThrew(rec, att[i].ex)
    /\ UNCHANGED << hasSubcases, numSubcases, expectations, runPc, idx,
                    totalCount, skipCount, runEx, runResult, ordering, hist,
                    recCalls, notRun >>

\* lines 329-337: catch (ex) { if (throwSkip && skip) throw ex; rec.threw(ex); }
Catch(i) ==
    /\ att[i].pc = "catch"
    /\ att' = IF Rethrows(att[i].throwSkip, att[i].ex)
              THEN [att EXCEPT ![i].thrown = att[i].ex,
                               ![i].ex = NoEx,
                               ![i].pc = "endSubCase"]
              ELSE [att EXCEPT ![i].log = Append(@, LogEntry("threw", att[i].ex)),
                               ![i].ex = NoEx,
                               ![i].pc = "endSubCase"]
    /\ rec' = IF Rethrows(att[i].throwSkip, att[i].ex)
              THEN rec
              ELSE RecThrew(rec, att[i].ex)
    /\ UNCHANGED << hasSubcases, numSubcases, expectations, runPc, idx,
                    totalCount, skipCount, runEx, runResult, ordering, hist,
                    recCalls, notRun >>

\* lines 338-347: finally { rec.endSubCase(expectedStatus), an
\* UnexpectedPassError being recorded with rec.warn }; then runTest returns,
\* or throws what its catch block threw on.
EndSubCase(i) ==
    /\ att[i].pc = "endSubCase"
    /\ recCalls' = Append(recCalls, RecCall("endSubCase", i))
    /\ att' = [att EXCEPT
                 ![i].log = IF UnexpectedPass(att[i])
                            THEN Append(@, LogEntry(UnexpectedPassCall,
                                                    Ex("endSubCase", "unexpectedPass")))
                            ELSE @,
                 ![i].pc = IF att[i].thrown = NoEx THEN "returned" ELSE "threw"]
    /\ rec' = IF UnexpectedPass(att[i])
              THEN RecApply(RecEndSubCase(rec), UnexpectedPassCall,
                            Ex("endSubCase", "unexpectedPass"))
              ELSE RecEndSubCase(rec)
    /\ UNCHANGED << hasSubcases, numSubcases, expectations, runPc, idx,
                    totalCount, skipCount, runEx, runResult, ordering, hist,
                    notRun >>

----------------------------------------------------------------------------
(* run, test_group.ts:350-414 *)

\* runTest() called without await: run() goes on at once.
RunTestNotAwaited(i) == TRUE

\* lines 393, 411: await this.runTest(...) resumes once runTest has settled.
RunTestSettled(i) == Settled(att[i])

\* How the iteration for one subcase ended, read from what was logged for it.
IterationEnd(a) ==
    IF \E k \in 1 .. Len(a.log) : a.log[k].call = "info" /\ a.log[k].ex.kind = "skip"
    THEN "skipped"
    ELSE IF \E k \in 1 .. Len(a.log) :
                a.log[k].call = "threw" /\ a.log[k].ex.kind = "error"
         THEN "failed"
         ELSE "passed"

\* lines 379-382, 410: rec.start() and the choice between the two branches.
RunStart ==
    /\ runPc = "start"
    /\ recCalls' = Append(recCalls, CaseCall("start"))
    /\ runPc' = IF hasSubcases THEN "loop" ELSE "single"
    /\ totalCount' = 0
    /\ skipCount' = 0
    /\ rec' = RecStart(rec)
    /\ UNCHANGED << hasSubcases, numSubcases, expectations, idx, runEx,
                    runResult, ordering, att, hist, notRun >>

\* lines 383-393: the next subcase: its banner, mergeParams (which throws when
\* the case and subcase parameters collide), its expected status, runTest.
LoopNext ==
    /\ runPc = "loop"
    /\ idx < numSubcases
    /\ idx' = idx + 1
    /\ LET i == idx + 1
           banner == LogEntry("info", Ex("subcase", "banner"))
       IN  \/ /\ att' = [att EXCEPT ![i].log = Append(@, banner)]
              /\ hist' = [hist EXCEPT ![i].iterations = @ + 1,
                                      ![i].end = "mergeFailed"]
              /\ runEx' = Ex("merge", "error")
              /\ runPc' = "catch"
              /\ ordering' = << >>
           \/ \E ords \in [1 .. Len(expectations) -> Ordering] :
              /\ att' = [att EXCEPT
                           ![i].log = Append(@, banner),
                           ![i].expected =
                               GetExpectedStatus(Declarations(expectations, ords)),
                           ![i].throwSkip = TRUE,
                           ![i].pc = "begin"]
              /\ hist' = [hist EXCEPT ![i].iterations = @ + 1,
                                      ![i].runTestCalls = @ + 1]
              /\ runEx' = runEx
              /\ runPc' = "await"
              /\ ordering' = ords
    /\ UNCHANGED << hasSubcases, numSubcases, expectations, totalCount,
                    skipCount, runResult, recCalls, rec, notRun >>

\* lines 393-394: runTest settled: on to ++totalCount, or into the catch block.
LoopAwait ==
    /\ runPc = "await"
    /\ RunTestSettled(idx)
    /\ IF att[idx].pc = "threw"
       THEN runEx' = att[idx].thrown /\ runPc' = "catch"
       ELSE runEx' = runEx /\ runPc' = "tail"
    /\ UNCHANGED << hasSubcases, numSubcases, expectations, idx, totalCount,
                    skipCount, runResult, ordering, att, hist, recCalls, rec,
                    notRun >>

\* LoopCatch with the try/catch around the loop instead of inside it: what a
\* subcase throws is recorded in the same way, and ends the loop.
LoopCatchEndsLoop ==
    /\ runPc = "catch"
    /\ IF IsSkipTestCase(runEx)
       THEN /\ att' = [att EXCEPT ![idx].log = Append(@, LogEntry("info", runEx))]
            /\ skipCount' = skipCount + 1
            /\ rec' = rec
       ELSE /\ att' = [att EXCEPT ![idx].log = Append(@, LogEntry("threw", runEx))]
            /\ skipCount' = skipCount
            /\ rec' = RecThrew(rec, runEx)
    /\ runEx' = NoEx
    /\ runPc' = "finish"
    /\ UNCHANGED << hasSubcases, numSubcases, expectations, idx, totalCount,
                    runResult, ordering, hist, recCalls, notRun >>

\* lines 394-404: SkipTestCase becomes an info message and counts as a skip,
\* anything else is recorded with rec.threw.
LoopCatch ==
    /\ runPc = "catch"
    /\ IF IsSkipTestCase(runEx)
       THEN /\ att' = [att EXCEPT ![idx].log = Append(@, LogEntry("info", runEx))]
            /\ skipCount' = skipCount + 1
            /\ rec' = rec
       ELSE /\ att' = [att EXCEPT ![idx].log = Append(@, LogEntry("threw", runEx))]
            /\ skipCount' = skipCount
            /\ rec' = RecThrew(rec, runEx)
    /\ runEx' = NoEx
    /\ runPc' = "tail"
    /\ UNCHANGED << hasSubcases, numSubcases, expectations, idx, totalCount,
                    runResult, ordering, hist, recCalls, notRun >>

\* line 405: ++totalCount, which ends the iteration: the frame of a runTest call
\* that has settled is released, and how the iteration ended is kept.
LoopTail ==
    /\ runPc = "tail"
    /\ totalCount' = totalCount + 1
    /\ hist' = [hist EXCEPT ![idx].end =
                   IF @ = "mergeFailed" THEN @ ELSE IterationEnd(att[idx])]
    /\ att' = IF InLifecycle(att[idx])
              THEN att
              ELSE [att EXCEPT ![idx] = [AttInit EXCEPT !.pc = "released"]]
    /\ runPc' = "loop"
    /\ UNCHANGED << hasSubcases, numSubcases, expectations, idx, skipCount,
                    runEx, runResult, ordering, recCalls, rec, notRun >>

\* LoopEnd marking the case skipped as soon as one subcase skipped.
LoopEndAnySkipped ==
    /\ runPc = "loop"
    /\ idx = numSubcases
    /\ recCalls' = IF skipCount > 0
                   THEN Append(recCalls, CaseCall("skipped"))
                   ELSE recCalls
    /\ rec' = IF skipCount > 0 THEN RecSkipped(rec) ELSE rec
    /\ runPc' = "finish"
    /\ UNCHANGED << hasSubcases, numSubcases, expectations, idx, totalCount,
                    skipCount, runEx, runResult, ordering, att, hist, notRun >>

\* LoopEnd calling rec.skipped only when a subcase was counted.
LoopEndSomeSkipped ==
    /\ runPc = "loop"
    /\ idx = numSubcases
    /\ recCalls' = IF skipCount = totalCount /\ totalCount > 0
                   THEN Append(recCalls, CaseCall("skipped"))
                   ELSE recCalls
    /\ rec' = IF skipCount = totalCount /\ totalCount > 0 THEN RecSkipped(rec) ELSE rec
    /\ runPc' = "finish"
    /\ UNCHANGED << hasSubcases, numSubcases, expectations, idx, totalCount,
                    skipCount, runEx, runResult, ordering, att, hist, notRun >>

\* lines 407-409: after the loop.
LoopEnd ==
    /\ runPc = "loop"
    /\ idx = numSubcases
    /\ recCalls' = IF skipCount = totalCount
                   THEN Append(recCalls, CaseCall("skipped"))
                   ELSE recCalls
    /\ rec' = IF skipCount = totalCount THEN RecSkipped(rec) ELSE rec
    /\ runPc' = "finish"
    /\ UNCHANGED << hasSubcases, numSubcases, expectations, idx, totalCount,
                    skipCount, runEx, runResult, ordering, att, hist, notRun >>

\* line 411: the case without subcases: one runTest call, throwSkip false.
Single ==
    /\ runPc = "single"
    /\ \E ords \in [1 .. Len(expectations) -> Ordering] :
          /\ att' = [att EXCEPT
                       ![0].expected =
                           GetExpectedStatus(Declarations(expectations, ords)),
                       ![0].throwSkip = FALSE,
                       ![0].pc = "begin"]
          /\ ordering' = ords
    /\ hist' = [hist EXCEPT ![0].runTestCalls = @ + 1]
    /\ runPc' = "awaitSingle"
    /\ UNCHANGED << hasSubcases, numSubcases, expectations, idx, totalCount,
                    skipCount, runEx, runResult, recCalls, rec, notRun >>

\* line 411: runTest settled; nothing around it catches what it throws.
SingleAwait ==
    /\ runPc = "awaitSingle"
    /\ RunTestSettled(0)
    /\ IF att[0].pc = "threw"
       THEN runEx' = att[0].thrown /\ runResult' = "threw" /\ runPc' = "done"
       ELSE runEx' = runEx /\ runResult' = runResult /\ runPc' = "finish"
    /\ UNCHANGED << hasSubcases, numSubcases, expectations, idx, totalCount,
                    skipCount, ordering, att, hist, recCalls, rec, notRun >>

\* line 413: rec.finish(), and run() returns.
Finish ==
    /\ runPc = "finish"
    /\ recCalls' = Append(recCalls, CaseCall("finish"))
    /\ rec' = RecFinish(rec)
    /\ runResult' = "returned"
    /\ runPc' = "done"
    /\ UNCHANGED << hasSubcases, numSubcases, expectations, idx, totalCount,
                    skipCount, runEx, ordering, att, hist, notRun >>

----------------------------------------------------------------------------
(* Log messages: out/common/internal/logging/log_message.js, and the          *)
(* recorder that stores them, logging/test_case_recorder.ts                   *)

\* Most log calls made on one recorder.
MaxLogCalls == 4

\* What a message is deduplicated by: the name it is logged under and the
\* stack of the exception it wraps.
Signatures == [name : {"EXCEPTION", "WARN"}, stack : {"at f", "at g"}]

\* A message that counts from 0: timesSeen is the number of duplicates only.
NewLogMessageUnseen(sig) == [sig |-> sig, timesSeen |-> 0]

\* log_message.js:3-12: new LogMessageWithStack(name, ex), timesSeen = 1.
NewLogMessage(sig) == [sig |-> sig, timesSeen |-> 1]

\* log_message.js:20-22: incrementTimesSeen().
IncrementTimesSeen(m) == [m EXCEPT !.timesSeen = @ + 1]

\* The recorder logging a message: one with the signature of a stored message
\* increments that message's counter, any other is appended.
RecorderLog(logs, sig) ==
    IF \E k \in 1 .. Len(logs) : logs[k].sig = sig
    THEN [k \in 1 .. Len(logs) |->
             IF logs[k].sig = sig THEN IncrementTimesSeen(logs[k]) ELSE logs[k]]
    ELSE Append(logs, NewLogMessage(sig))

\* A recorder nothing was logged into: logs are its messages, logged the
\* number of log calls made so far with each signature.
LoggerInit == [logs |-> << >>, logged |-> [sig \in Signatures |-> 0]]

LogCalls(l) ==
    LET RECURSIVE Sum(_)
        Sum(S) == IF S = {} THEN 0
                  ELSE LET x == CHOOSE y \in S : TRUE
                       IN  l.logged[x] + Sum(S \ {x})
    IN  Sum(Signatures)

\* One log call on the recorder, with a message of signature sig.
LogMessage(sig) ==
    /\ LogCalls(logger) < MaxLogCalls
    /\ logger' = [logs   |-> RecorderLog(logger.logs, sig),
                  logged |-> [logger.logged EXCEPT ![sig] = @ + 1]]
    /\ UNCHANGED notLogger

----------------------------------------------------------------------------
(* TestGroup, test_group.ts:69-115 *)

\* Most calls made on one group and on the builders of its tests, validate()
\* apart.
MaxTestCalls == 3

\* query/separators.ts: the separator of the parts of a test path.
kPathSeparator == ","

\* The names test() is called with, as sequences of characters, "%61" being
\* one percent-encoded character: plain names of one and of two parts, a name
\* that percent-decoding changes, a name with a character that no part may
\* hold, a name with an empty part.
TestNames ==
    { << "a" >>, << "b" >>, << "a", ",", "b" >>, << "%61" >>, << "a", " " >>,
      << "a", "," >> }

\* decodeURIComponent: every percent-encoded character becomes the character
\* it encodes.
DecodeURIComponent(name) ==
    [k \in 1 .. Len(name) |-> IF name[k] = "%61" THEN "a" ELSE name[k]]

\* name.split(kPathSeparator): the parts between the separators, empty ones too.
RECURSIVE Split(_)
Split(name) ==
    LET seps == { k \in 1 .. Len(name) : name[k] = kPathSeparator } IN
    IF seps = {}
    THEN << name >>
    ELSE LET k == CHOOSE n \in seps : \A m \in seps : n <= m
         IN  << SubSeq(name, 1, k - 1) >> \o Split(SubSeq(name, k + 1, Len(name)))

\* testPath.join(kPathSeparator), as in TestBuilder.validate (line 199).
RECURSIVE Join(_)
Join(parts) ==
    IF Len(parts) = 1
    THEN parts[1]
    ELSE parts[1] \o << kPathSeparator >> \o Join(Tail(parts))

\* query/validQueryPart.ts: a part is one or more characters of the
\* restricted class.
ValidQueryPart(part) ==
    part # << >> /\ \A k \in 1 .. Len(part) : part[k] \in {"a", "b"}

\* checkName without the assertion on names seen before.
CheckNameIdempotentOnly(seen, name) ==
    IF name # DecodeURIComponent(name) THEN "notIdempotent" ELSE "ok"

\* lines 82-90: the two assertions of checkName, in their order.
CheckName(seen, name) ==
    IF name # DecodeURIComponent(name) THEN "notIdempotent"
    ELSE IF name \in seen THEN "duplicate"
    ELSE "ok"

\* this.tests.unshift(test): the new test put first.
Unshift(tests, test) == << test >> \o tests

\* line 106: this.tests.push(test).
Push(tests, test) == Append(tests, test)

\* lines 78-80: iterate() returns this.tests.
TestGroupIterate(g) == g.tests

\* this.testCases of a test that is not parameterized.
NoTestCases == [defined |-> FALSE, cases |-> << >>]

\* A group as constructed (lines 71-76), no call made on it: last is the
\* latest call (test() on the group, fn() or params() on the builder of one of
\* its tests, validate() on the group), with whether a test of that name was
\* registered before it, whether it added a test, and seen and tests as they
\* were before it.
GroupInit ==
    [ seen  |-> {},
      tests |-> << >>,
      calls |-> 0,
      last  |-> [op |-> "none", name |-> << >>, result |-> "none",
                 registered |-> FALSE, added |-> FALSE,
                 before |-> [seen |-> {}, tests |-> << >>]] ]

\* The names of the tests of a group.
Registered(g) == { Join(g.tests[k].testPath) : k \in 1 .. Len(g.tests) }

\* lines 95-108: test(name).  checkName adds the name to seen before the
\* parts of the name are looked at.
Test(name) ==
    /\ group.calls < MaxTestCalls
    /\ LET checked == CheckName(group.seen, name)
           parts   == Split(name)
           valid   == \A k \in 1 .. Len(parts) : ValidQueryPart(parts[k])
           result  == IF checked # "ok" THEN checked
                      ELSE IF valid THEN "ok" ELSE "invalidPart"
       IN  group' =
             [ seen  |-> IF checked = "ok" THEN group.seen \cup {name}
                         ELSE group.seen,
               tests |-> IF result = "ok"
                         THEN Push(group.tests,
                                   [testPath |-> parts, hasFn |-> FALSE,
                                    testCases |-> NoTestCases])
                         ELSE group.tests,
               calls |-> group.calls + 1,
               last  |-> [op |-> "test", name |-> name, result |-> result,
                          registered |-> name \in Registered(group),
                          added |-> result = "ok",
                          before |-> [seen |-> group.seen, tests |-> group.tests]] ]
    /\ UNCHANGED notGroup

----------------------------------------------------------------------------
(* TestBuilder.validate, test_group.ts:198-228 *)

\* Most cases one test enumerates.
MaxCases == 2

\* The parameter keys in the order in which sorting puts them; a key that
\* starts with an underscore is private.
ParamKeys == << "_p", "a", "b" >>

ParamKeyIsPublic(key) == key # "_p"

\* A parameter record with one key, and the empty one.
NoParams == [k \in {} |-> 0]

Param(key, value) == [k \in {key} |-> value]

\* The parameters of the cases: none, one public key, and the same with a
\* private key added.
CaseParamChoices == { NoParams, Param("a", 1), [k \in {"a", "_p"} |-> 1] }

\* The subcases of one case (defined: the case has subcases): no subcases, an
\* empty enumeration, one subcase, two that differ in a public key, the same
\* subcase twice, two that differ in a private key only.
SubcaseChoices ==
    { [defined |-> FALSE, list |-> << >>],
      [defined |-> TRUE, list |-> << >>],
      [defined |-> TRUE, list |-> << Param("b", 1) >>],
      [defined |-> TRUE, list |-> << Param("b", 1), Param("b", 2) >>],
      [defined |-> TRUE, list |-> << Param("b", 1), Param("b", 1) >>],
      [defined |-> TRUE, list |-> << NoParams, Param("_p", 2) >>] }

\* this.testCases: undefined, or the (case, subcases) pairs it enumerates.
TestCasesChoices ==
    { [defined |-> FALSE, cases |-> << >>] }
    \cup { [defined |-> TRUE, cases |-> c] :
             c \in SeqsUpTo([params : CaseParamChoices, subcases : SubcaseChoices],
                            MaxCases) }

\* mergeParams(a, b) fails when the two records share a key with different values.
MergeFails(a, b) == \E k \in DOMAIN a \cap DOMAIN b : a[k] # b[k]

MergeParams(a, b) ==
    [k \in DOMAIN a \cup DOMAIN b |-> IF k \in DOMAIN a THEN a[k] ELSE b[k]]

\* stringifyPublicParamsUniquely: the public keys in sorted order, each with
\* its value.
StringifyPublicParamsUniquely(p) ==
    LET IsPublicKeyOf(key) == key \in DOMAIN p /\ ParamKeyIsPublic(key)
        keys == SelectSeq(ParamKeys, IsPublicKeyOf)
    IN  [k \in 1 .. Len(keys) |-> << keys[k], p[keys[k]] >>]

\* lines 213-214: the entries the two loops go through, in order: for each
\* case its subcases, or the one empty subcase when it has none.
RECURSIVE Entries(_, _)
Entries(cases, c) ==
    IF c > Len(cases)
    THEN << >>
    ELSE LET subs == IF cases[c].subcases.defined
                     THEN cases[c].subcases.list
                     ELSE << NoParams >>
         IN  [k \in 1 .. Len(subs) |->
                 [case |-> c, caseParams |-> cases[c].params, subcaseParams |-> subs[k]]]
             \o Entries(cases, c + 1)

\* The loops with a Set per case: const seen = new Set() inside the outer loop.
RECURSIVE ValidateFromSeenPerCase(_, _, _)
ValidateFromSeenPerCase(entries, k, seen) ==
    IF k > Len(entries) THEN "ok"
    ELSE LET e == entries[k]
             mine == IF k > 1 /\ entries[k - 1].case # e.case THEN {} ELSE seen
         IN  IF MergeFails(e.caseParams, e.subcaseParams) THEN "mergeFailed"
             ELSE LET unique == StringifyPublicParamsUniquely(
                                    MergeParams(e.caseParams, e.subcaseParams))
                  IN  IF unique \in mine THEN "duplicate"
                      ELSE ValidateFromSeenPerCase(entries, k + 1, mine \cup {unique})

\* lines 212-227: the loops from entry k on, seen being the Set.
RECURSIVE ValidateFrom(_, _, _)
ValidateFrom(entries, k, seen) ==
    IF k > Len(entries) THEN "ok"
    ELSE LET e == entries[k] IN
         IF MergeFails(e.caseParams, e.subcaseParams) THEN "mergeFailed"
         ELSE LET unique == StringifyPublicParamsUniquely(
                                MergeParams(e.caseParams, e.subcaseParams))
              IN  IF unique \in seen THEN "duplicate"
                  ELSE ValidateFrom(entries, k + 1, seen \cup {unique})

\* validate() with the early return for a test without cases put before the
\* assertion on the body.
ValidateParamsOnly(hasFn, testCases) ==
    IF ~ testCases.defined THEN "ok"
    ELSE IF ~ hasFn THEN "missingFn"
    ELSE ValidateFrom(Entries(testCases.cases, 1), 1, {})

\* lines 198-228: validate(): "ok" when it returns, else the assertion that failed.
Validate(hasFn, testCases) ==
    IF ~ hasFn THEN "missingFn"
    ELSE IF ~ testCases.defined THEN "ok"
    ELSE ValidateFrom(Entries(testCases.cases, 1), 1, {})

\* validate() is called on a test.
ValidateTest ==
    /\ validation.result = "none"
    /\ validation' = [validation EXCEPT
                         !.result = Validate(validation.hasFn, validation.testCases)]
    /\ UNCHANGED notValidation

\* No test is under validation.
ValidationIdle ==
    validation = [hasFn |-> FALSE,
                  testCases |-> [defined |-> FALSE, cases |-> << >>],
                  result |-> "none"]

----------------------------------------------------------------------------
(* TestGroup.validate and the builders of its tests, test_group.ts:110-114 *)

\* The cases the tests of a group are given: one case, and the same case
\* twice.
GroupCasesChoices ==
    { [defined |-> TRUE,
       cases |-> << [params |-> Param("a", 1), subcases |-> [defined |-> FALSE, list |-> << >>]] >>],
      [defined |-> TRUE,
       cases |-> << [params |-> Param("a", 1), subcases |-> [defined |-> FALSE, list |-> << >>]],
                    [params |-> Param("a", 1), subcases |-> [defined |-> FALSE, list |-> << >>]] >>] }

\* The latest call, one made after test(): it registers nothing.
GroupCall(op, result) ==
    [op |-> op, name |-> << >>, result |-> result, registered |-> FALSE,
     added |-> FALSE, before |-> [seen |-> group.seen, tests |-> group.tests]]

\* lines 180-185: fn() on the builder test() returned for the k-th test.
TestFn(k) ==
    /\ group.calls < MaxTestCalls
    /\ k \in 1 .. Len(group.tests)
    /\ group' = [group EXCEPT
                    !.tests[k].hasFn = TRUE,
                    !.calls = @ + 1,
                    !.last = GroupCall("fn", IF group.tests[k].hasFn
                                             THEN "alreadyHasFn" ELSE "ok")]
    /\ UNCHANGED notGroup

\* lines 236-240: cases() on the builder test() returned for the k-th test.
TestCases(k, testCases) ==
    /\ group.calls < MaxTestCalls
    /\ k \in 1 .. Len(group.tests)
    /\ group' = [group EXCEPT
                    !.tests[k].testCases = IF @.defined THEN @ ELSE testCases,
                    !.calls = @ + 1,
                    !.last = GroupCall("cases", IF group.tests[k].testCases.defined
                                                THEN "alreadyParameterized" ELSE "ok")]
    /\ UNCHANGED notGroup

\* lines 110-114: validate() of the group: validate() of each test in turn,
\* the first assertion that fails ending the loop.
RECURSIVE GroupValidateFrom(_, _)
GroupValidateFrom(tests, k) ==
    IF k > Len(tests) THEN "ok"
    ELSE LET result == Validate(tests[k].hasFn, tests[k].testCases)
         IN  IF result # "ok" THEN result ELSE GroupValidateFrom(tests, k + 1)

GroupValidate ==
    /\ group.last.op # "validate"
    /\ group' = [group EXCEPT
                    !.last = GroupCall("validate", GroupValidateFrom(group.tests, 1))]
    /\ UNCHANGED notGroup

----------------------------------------------------------------------------
(* TestBuilder: desc, fn, unimplemented, test_group.ts:160-196 *)

\* Most calls made on one TestBuilder.
MaxBuilderCalls == 4

\* The body functions fn() is called with.
TestFns == {"fnA", "fnB"}

\* The strings desc() is called with, as sequences of characters: empty, blank,
\* plain, and padded with blanks.
DescChoices == { << >>, << " " >>, << "x" >>, << " ", "x", " " >> }

\* description.trim(): the string without its leading and trailing blanks.
RECURSIVE Trim(_)
Trim(text) ==
    IF text = << >> THEN text
    ELSE IF Head(text) = " " THEN Trim(Tail(text))
    ELSE IF text[Len(text)] = " " THEN Trim(SubSeq(text, 1, Len(text) - 1))
    ELSE text

\* description: string | undefined.
Undefined == [defined |-> FALSE, text |-> << >>]

String(text) == [defined |-> TRUE, text |-> text]

\* lines 190-191: the description unimplemented() leaves; an undefined or
\* empty description is falsy.
WithTodo(description) ==
    String((IF description.defined /\ description.text # << >>
            THEN description.text \o << "\n\n" >>
            ELSE << >>) \o << "TODO: .unimplemented()" >>)

\* A TestBuilder as constructed (lines 160-173), no call made on it: last is
\* the latest call, with testFn and description as they were before it.
BuilderInit ==
    [ testFn      |-> "undefined",
      description |-> Undefined,
      calls       |-> 0,
      attached    |-> 0,
      last        |-> [op |-> "none", ok |-> TRUE,
                       fnBefore |-> "undefined", descBefore |-> Undefined] ]

Called(b, op, ok) ==
    [b EXCEPT !.calls = @ + 1,
              !.last = [op |-> op, ok |-> ok,
                        fnBefore |-> b.testFn, descBefore |-> b.description]]

\* lines 175-178: desc(description).
Desc(text) ==
    /\ builder.calls < MaxBuilderCalls
    /\ builder' = [Called(builder, "desc", TRUE) EXCEPT
                      !.description = String(Trim(text))]
    /\ UNCHANGED notBuilder

\* lines 180-185: fn(fn): the assertion, then the assignment.
Fn(f) ==
    /\ builder.calls < MaxBuilderCalls
    /\ builder' = IF builder.testFn # "undefined"
                  THEN Called(builder, "fn", FALSE)
                  ELSE [Called(builder, "fn", TRUE) EXCEPT
                           !.testFn = f,
                           !.attached = @ + 1]
    /\ UNCHANGED notBuilder

\* unimplemented() with the assertion after the description is written.
UnimplementedAssertsLast ==
    /\ builder.calls < MaxBuilderCalls
    /\ builder' = IF builder.testFn # "undefined"
                  THEN [Called(builder, "unimplemented", FALSE) EXCEPT
                           !.description = WithTodo(builder.description)]
                  ELSE [Called(builder, "unimplemented", TRUE) EXCEPT
                           !.description = WithTodo(builder.description),
                           !.testFn = "unimplemented",
                           !.attached = @ + 1]
    /\ UNCHANGED notBuilder

\* lines 187-196: unimplemented(): the assertion, then the description and
\* the body that throws SkipTestCase.
Unimplemented ==
    /\ builder.calls < MaxBuilderCalls
    /\ builder' = IF builder.testFn # "undefined"
                  THEN Called(builder, "unimplemented", FALSE)
                  ELSE [Called(builder, "unimplemented", TRUE) EXCEPT
                           !.description = WithTodo(builder.description),
                           !.testFn = "unimplemented",
                           !.attached = @ + 1]
    /\ UNCHANGED notBuilder

\* The builder of a test registered with test(name).unimplemented().
UnimplementedTest ==
    [Called(BuilderInit, "unimplemented", TRUE) EXCEPT
        !.description = WithTodo(BuilderInit.description),
        !.testFn = "unimplemented",
        !.attached = @ + 1]

----------------------------------------------------------------------------
(* Content checks, check_contents.js (src/unnamed/part_001) *)

\* Longest array handed to a content check.
MaxLen == 3

\* The constructors of the arrays, and the values of their elements.
ArrayTypes == {"Uint8Array", "Uint32Array"}

ElementValues == 0 .. 1

\* A TypedArray: the element of index i is elements[i + 1].
TypedArrays == [type : ArrayTypes, elements : SeqsUpTo(ElementValues, MaxLen)]

At(array, i) == array.elements[i + 1]

\* let failedElementsFirstMaybe = undefined, and a defined index.
NoIndex == [defined |-> FALSE, index |-> 0]

Index(i) == [defined |-> TRUE, index |-> i]

\* The first failed index overwritten by every failed element.
FailedFirstOverwritten(firstMaybe, i) == Index(i)

\* line 133: failedElementsFirstMaybe ??= i
FailedFirst(firstMaybe, i) == IF firstMaybe.defined THEN firstMaybe ELSE Index(i)

\* lines 131-136: the loop from index i on, predicate[i] being what
\* predicate(i, actual[i]) returns: failed holds failedElementsFirstMaybe and
\* the length of the sparse array failedElements, which failedElements[i] =
\* true makes i + 1.
RECURSIVE FailedElementsFrom(_, _, _, _)
FailedElementsFrom(actual, predicate, i, failed) ==
    IF i >= Len(actual.elements)
    THEN failed
    ELSE FailedElementsFrom(
             actual, predicate, i + 1,
             IF predicate[i]
             THEN failed
             ELSE [first |-> FailedFirst(failed.first, i), length |-> i + 1])

Min(a, b) == IF a <= b THEN a ELSE b

Max(a, b) == IF a >= b THEN a ELSE b

\* checkElementsPassPredicate returned undefined.
Passed == [kind |-> "undefined", first |-> 0, last |-> 0, start |-> 0, end |-> 0]

\* An assertion failed: the check threw instead of returning.
Threw(message) == [kind |-> message, first |-> 0, last |-> 0, start |-> 0, end |-> 0]

\* The window ending right after the last failed element.
PrintElementsEndNoContext(size, failedElementsLast) == Min(size, failedElementsLast + 1)

\* line 146: printElementsEnd, the index after the last element printed.
PrintElementsEnd(size, failedElementsLast) == Min(size, failedElementsLast + 2)

\* lines 119-186: checkElementsPassPredicate: undefined, or the error with the
\* first and last failed index and the window of elements it prints.
CheckElementsPassPredicate(actual, predicate) ==
    LET size   == Len(actual.elements)
        failed == FailedElementsFrom(actual, predicate, 0,
                                     [first |-> NoIndex, length |-> 0])
    IN  IF ~ failed.first.defined
        THEN Passed
        ELSE LET failedElementsFirst == failed.first.index
                 failedElementsLast  == failed.length - 1
             IN  [ kind  |-> "error",
                   first |-> failedElementsFirst,
                   last  |-> failedElementsLast,
                   start |-> Max(0, failedElementsFirst - 1),
                   end   |-> PrintElementsEnd(size, failedElementsLast) ]

\* lines 104-113: checkElementsEqualGenerated: value === generator(index).
CheckElementsEqualGenerated(actual, generator) ==
    LET predicate == [index \in 0 .. Len(actual.elements) - 1 |->
                         At(actual, index) = generator[index]]
    IN  CheckElementsPassPredicate(actual, predicate)

\* checkElementsEqual without its length assertion: the comparison runs over
\* the indices of actual, and an index expected does not have never matches.
CheckElementsEqualNoSizeAssert(actual, expected) ==
    IF actual.type # expected.type THEN Threw("TypedArray type mismatch")
    ELSE LET generator == [i \in 0 .. Len(actual.elements) - 1 |->
                             IF i < Len(expected.elements) THEN At(expected, i)
                             ELSE At(actual, i) + 1]
         IN  CheckElementsEqualGenerated(actual, generator)

\* lines 29-36: checkElementsEqual: the two assertions, then the check against
\* i => expected[i].
CheckElementsEqual(actual, expected) ==
    IF actual.type # expected.type THEN Threw("TypedArray type mismatch")
    ELSE IF Len(actual.elements) # Len(expected.elements) THEN Threw("size mismatch")
    ELSE LET generator == [i \in 0 .. Len(expected.elements) - 1 |-> At(expected, i)]
         IN  CheckElementsEqualGenerated(actual, generator)

NoResult == [kind |-> "none", first |-> 0, last |-> 0, start |-> 0, end |-> 0]

\* No content check is made.
CheckIdle ==
    check = [actual   |-> [type |-> "Uint8Array", elements |-> << >>],
             expected |-> [type |-> "Uint8Array", elements |-> << >>],
             result   |-> NoResult]

\* One checkElementsEqual(actual, expected) call.
CallCheckElementsEqual ==
    /\ check.result = NoResult
    /\ check' = [check EXCEPT !.result = CheckElementsEqual(check.actual, check.expected)]
    /\ UNCHANGED notCheck

\* The predicate that takes expected[0] for the lower bounds and expected[1]
\* for the upper bounds.
BetweenInOrder(actual, expected) ==
    [index \in 0 .. Len(actual.elements) - 1 |->
        /\ index < Len(expected[1].elements)
        /\ index < Len(expected[2].elements)
        /\ At(actual, index) >= At(expected[1], index)
        /\ At(actual, index) <= At(expected[2], index)]

\* lines 46-48: the predicate of checkElementsBetween; expected[1] and
\* expected[2] stand for expected[0] and expected[1] of the code. Past the
\* end of an array of bounds expected[k][index] is undefined, Math.min and
\* Math.max of it are NaN, and every comparison with NaN is false.
BetweenPredicate(actual, expected) ==
    [index \in 0 .. Len(actual.elements) - 1 |->
        /\ index < Len(expected[1].elements)
        /\ index < Len(expected[2].elements)
        /\ At(actual, index) >= Min(At(expected[1], index), At(expected[2], index))
        /\ At(actual, index) <= Max(At(expected[1], index), At(expected[2], index))]

\* lines 39-60: checkElementsBetween: undefined, or the error of
\* checkElementsPassPredicate extended with the two arrays of bounds.
CheckElementsBetween(actual, expected) ==
    CheckElementsPassPredicate(actual, BetweenPredicate(actual, expected))

\* No checkElementsBetween call is made.
BetweenIdle ==
    between = [actual   |-> [type |-> "Uint8Array", elements |-> << >>],
               expected |-> << [type |-> "Uint8Array", elements |-> << >>],
                               [type |-> "Uint8Array", elements |-> << >>] >>,
               result   |-> NoResult]

\* One checkElementsBetween(actual, expected) call.
CallCheckElementsBetween ==
    /\ between.result = NoResult
    /\ between' = [between EXCEPT
                      !.result = CheckElementsBetween(between.actual, between.expected)]
    /\ UNCHANGED notBetween

----------------------------------------------------------------------------
(* generatePrettyTable, check_contents.js (src/unnamed/part_001):199-247 *)

\* Most cells one lazily generated row repeats or one other row holds, and
\* the widest fillToWidth.
MaxCells == 2

MaxFillToWidth == 3

\* A cell once stringified (line 223): a string, a sequence of characters.
CellStrings == { << >>, << "x" >> }

\* rows.length: a table of no row, of one row or of two.
RowCounts == 0 .. 2

\* A row of the table, an iterable: it yields its cells and is done, or, a
\* lazily generated row that never ends, yields its cells over and over.
TableRows ==
    { row \in [cells : SeqsUpTo(CellStrings, MaxCells), infinite : BOOLEAN] :
          row.infinite => row.cells # << >> }

\* line 222: what the call number k, from 0, of iter.next() returns for a row;
\* lines 222-223 make a cell of it, undefined when the iterator is done.
IterNext(row, k) ==
    IF row.infinite
    THEN [done |-> FALSE, value |-> row.cells[(k % Len(row.cells)) + 1]]
    ELSE IF k < Len(row.cells)
    THEN [done |-> FALSE, value |-> row.cells[k + 1]]
    ELSE [done |-> TRUE, value |-> << >>]

\* The width of the widest cell of the column, with no space between columns.
ColWidthNoSpace(cellsForColumn) ==
    LET widths == { IF cellsForColumn[row].done THEN 0
                    ELSE Len(cellsForColumn[row].value) :
                        row \in 1 .. Len(cellsForColumn) }
    IN  CHOOSE w \in widths : \A v \in widths : v <= w

\* line 228: colWidth, the width of the widest cell of the column plus one.
ColWidth(cellsForColumn) ==
    LET widths == { IF cellsForColumn[row].done THEN 0
                    ELSE Len(cellsForColumn[row].value) :
                        row \in 1 .. Len(cellsForColumn) }
    IN  (CHOOSE w \in widths : \A v \in widths : v <= w) + 1

\* line 232: cell.padStart(colWidth).
PadStart(cell, colWidth) ==
    [i \in 1 .. Max(0, colWidth - Len(cell)) |-> " "] \o cell

\* line 240: the mark appended to a row.
Ellipsis == << " ", ".", ".", "." >>

\* line 246: rowStrings.join('\n').
RECURSIVE JoinLines(_)
JoinLines(rowStrings) ==
    IF rowStrings = << >> THEN << >>
    ELSE IF Len(rowStrings) = 1 THEN rowStrings[1]
    ELSE rowStrings[1] \o << "\n" >> \o JoinLines(Tail(rowStrings))

\* lines 214-216: the locals before the loop over the columns; columns is the
\* number of columns printed, the position of every iterator.
NewTable(fillToWidth, rows) ==
    [ fillToWidth     |-> fillToWidth,
      rows            |-> rows,
      rowStrings      |-> [row \in 1 .. Len(rows) |-> << >>],
      totalTableWidth |-> 0,
      columns         |-> 0,
      pc              |-> "loop",
      returned        |-> << >> ]

\* No generatePrettyTable call is made.
TableIdle == table = [NewTable(1, << >>) EXCEPT !.pc = "idle"]

\* lines 219-244: one turn of the loop over the columns, and line 246 when the
\* turn leaves the loop.
LoopOverColumns ==
    /\ table.pc = "loop"
    /\ LET cellsForColumn == [row \in 1 .. Len(table.rows) |->
                                 IterNext(table.rows[row], table.columns)]
           rowIndices == 1 .. Len(table.rows)
       IN  IF \A row \in rowIndices : cellsForColumn[row].done
           THEN table' = [table EXCEPT !.pc = "returned",
                                       !.returned = JoinLines(table.rowStrings)]
           ELSE LET colWidth == ColWidth(cellsForColumn)
                    padded == [row \in rowIndices |->
                                  IF cellsForColumn[row].done
                                  THEN table.rowStrings[row]
                                  ELSE table.rowStrings[row] \o
                                       PadStart(cellsForColumn[row].value, colWidth)]
                    totalTableWidth == table.totalTableWidth + colWidth
                    marked == [row \in rowIndices |->
                                  IF cellsForColumn[row].done
                                  THEN padded[row]
                                  ELSE padded[row] \o Ellipsis]
                IN  IF totalTableWidth >= table.fillToWidth
                    THEN table' = [table EXCEPT !.rowStrings = marked,
                                                !.totalTableWidth = totalTableWidth,
                                                !.columns = @ + 1,
                                                !.pc = "returned",
                                                !.returned = JoinLines(marked)]
                    ELSE table' = [table EXCEPT !.rowStrings = padded,
                                                !.totalTableWidth = totalTableWidth,
                                                !.columns = @ + 1]
    /\ UNCHANGED notTable

----------------------------------------------------------------------------
(* TestBuilder: cases, subcases, params2, iterate, test_group.ts:230-306,  *)
(* and the subcases a RunCase enumerates, test_group.ts:382-411            *)

\* this.testPath of the test.
TestPath == << "t" >>

\* An iterable of subcases: list is what it yields; a one-shot iterable (a
\* generator object) yields it once and is done from then on, any other (an
\* array, a params builder) yields it every time it is iterated.
Iterable(oneShot, list) ==
    [defined |-> TRUE, oneShot |-> oneShot, done |-> FALSE, list |-> list]

\* undefined in the place of the subcases.
NoIterable == [defined |-> FALSE, oneShot |-> FALSE, done |-> FALSE, list |-> << >>]

\* for (const x of it): what the loop goes through.
Enumerate(it) == IF it.oneShot /\ it.done THEN << >> ELSE it.list

\* The iterable after a for-of loop over it has ended, by exhaustion or by an
\* exception in the loop body (which closes a generator).
Consumed(it) == [it EXCEPT !.done = it.oneShot]

\* this.testCases = undefined (line 167).
Unparameterized == [defined |-> FALSE, isArray |-> FALSE, cases |-> << >>]

\* this.testCases as an Array of [case, subcases] pairs.
ArrayOfCases(cases) == [defined |-> TRUE, isArray |-> TRUE, cases |-> cases]

\* The iterables cases() is called with: no case, one case, two cases of
\* which the second has a private parameter.
CasesChoices ==
    { << >>, << Param("a", 1) >>, << Param("a", 1), [k \in {"a", "_p"} |-> 2] >> }

\* What the callback handed to subcases() returns, for any case: an array of
\* two subcases, or a generator object that yields the same two.
SpecsChoices ==
    { Iterable(oneShot, << Param("b", 1), Param("b", 2) >>) : oneShot \in BOOLEAN }

\* The params builders params2() is called with, by the [case, subcases]
\* pairs they enumerate, every time anew: one case without subcases, and two
\* cases of two subcases each.
BuilderChoices ==
    { << [params |-> Param("a", 1), subcases |-> NoIterable] >>,
      << [params |-> Param("a", 1),
          subcases |-> Iterable(FALSE, << Param("b", 1), Param("b", 2) >>)],
         [params |-> [k \in {"a", "_p"} |-> 2],
          subcases |-> Iterable(FALSE, << Param("b", 1), Param("b", 2) >>)] >> }

\* The latest call on the test: before is this.testCases as it was; for the
\* run of a RunCase, rc is the RunCase, enumerated what the loop over its
\* subcases went through and attempts the runTest() calls it made.
ParamCall(op, ok) ==
    [op |-> op, ok |-> ok, before |-> paramTest.testCases,
     rc |-> 0, enumerated |-> [defined |-> FALSE, list |-> << >>], attempts |-> 0]

\* A test as test() returns it (lines 169-173), with or without a body, no
\* call made on it.
NewTestBuilder(hasFn) ==
    [ hasFn     |-> hasFn,
      testCases |-> Unparameterized,
      calls     |-> 0,
      validated |-> [done |-> FALSE, cases |-> << >>],
      yielded   |-> << >>,
      last      |-> [op |-> "none", ok |-> TRUE, before |-> Unparameterized,
                     rc |-> 0, enumerated |-> [defined |-> FALSE, list |-> << >>],
                     attempts |-> 0] ]

\* No test is being parameterized.
ParamTestIdle == paramTest = NewTestBuilder(FALSE)

\* cases() and params2() without their assertion.
NeverParameterized(testCases) == FALSE

\* lines 237, 256: this.testCases === undefined is asserted; the assertion
\* fails when the cases are set.
AlreadyParameterized(testCases) == testCases.defined

\* lines 231-240: params() and cases(): Array.from(casesIterable), each case
\* paired with undefined.
Cases(casesIterable) ==
    /\ paramTest.calls < MaxBuilderCalls
    /\ LET ok == ~ AlreadyParameterized(paramTest.testCases)
           pairs == [k \in 1 .. Len(casesIterable) |->
                        [params |-> casesIterable[k], subcases |-> NoIterable]]
       IN  paramTest' = [paramTest EXCEPT
                            !.testCases = IF ok THEN ArrayOfCases(pairs) ELSE @,
                            !.calls = @ + 1,
                            !.last = ParamCall("cases", ok)]
    /\ UNCHANGED notParamTest

\* lines 243-248: subcases(specs): every case, or the one empty case when
\* there is none yet, is paired with what specs returns for it, an object of
\* its own for each case.  What validate() enumerated before and the RunCases
\* yielded before belong to the cases replaced.
Subcases(specs) ==
    /\ paramTest.calls < MaxBuilderCalls
    /\ LET ok == paramTest.testCases.isArray \/ ~ paramTest.testCases.defined
           oldTestCases == IF paramTest.testCases.defined
                           THEN paramTest.testCases.cases
                           ELSE << [params |-> NoParams, subcases |-> NoIterable] >>
           pairs == [k \in 1 .. Len(oldTestCases) |->
                        [params |-> oldTestCases[k].params, subcases |-> specs]]
       IN  paramTest' = [paramTest EXCEPT
                            !.testCases = IF ok THEN ArrayOfCases(pairs) ELSE @,
                            !.validated = IF ok THEN [done |-> FALSE, cases |-> << >>]
                                          ELSE @,
                            !.yielded = IF ok THEN << >> ELSE @,
                            !.calls = @ + 1,
                            !.last = ParamCall("subcases", ok)]
    /\ UNCHANGED notParamTest

\* lines 250-265: params2(): this.testCases becomes the params builder.
Params2(cases) ==
    /\ paramTest.calls < MaxBuilderCalls
    /\ LET ok == ~ AlreadyParameterized(paramTest.testCases)
       IN  paramTest' = [paramTest EXCEPT
                            !.testCases = IF ok
                                          THEN [defined |-> TRUE, isArray |-> FALSE,
                                                cases |-> cases]
                                          ELSE @,
                            !.calls = @ + 1,
                            !.last = ParamCall("params2", ok)]
    /\ UNCHANGED notParamTest

\* The cases as a loop over them and their subcases finds them now.
CasesView(cases) ==
    [c \in 1 .. Len(cases) |->
        [params |-> cases[c].params,
         subcases |-> [defined |-> cases[c].subcases.defined,
                       list |-> Enumerate(cases[c].subcases)]]]

\* lines 212-227: the number of cases whose subcases validate() starts to
\* enumerate: all of them, or those up to the one an assertion fails in.
Reached(view) ==
    LET Fails(c) == ValidateFrom(Entries(SubSeq(view, 1, c), 1), 1, {}) # "ok"
    IN  IF \E c \in 1 .. Len(view) : Fails(c)
        THEN CHOOSE c \in 1 .. Len(view) :
                 Fails(c) /\ \A d \in 1 .. c - 1 : ~ Fails(d)
        ELSE Len(view)

\* lines 198-228: validate(), which enumerates the subcases of the cases it
\* reaches.
ValidateParameterized ==
    /\ paramTest.calls < MaxBuilderCalls
    /\ LET cases == paramTest.testCases.cases
           view == CasesView(cases)
           result == Validate(paramTest.hasFn,
                              [defined |-> paramTest.testCases.defined, cases |-> view])
           traversed == paramTest.hasFn /\ paramTest.testCases.defined
       IN  paramTest' = [paramTest EXCEPT
                            !.testCases.cases =
                                IF traversed
                                THEN [c \in 1 .. Len(cases) |->
                                         IF c <= Reached(view)
                                         THEN [cases[c] EXCEPT !.subcases = Consumed(@)]
                                         ELSE cases[c]]
                                ELSE @,
                            !.validated = [done |-> traversed /\ result = "ok",
                                           cases |-> IF traversed /\ result = "ok"
                                                     THEN view ELSE << >>],
                            !.calls = @ + 1,
                            !.last = ParamCall("validate", result = "ok")]
    /\ UNCHANGED notParamTest

\* params_utils.ts: extractPublicParams: the parameters whose key is public.
ExtractPublicParams(params) ==
    [key \in { k \in DOMAIN params : ParamKeyIsPublic(k) } |-> params[key]]

\* lines 292-306: new RunCaseSpecific(testPath, caseParams, subcases, ...);
\* its subcases are the object the c-th case of this.testCases holds.
RunCaseSpecific(testPath, cases, c) ==
    [ id       |-> [test |-> testPath, params |-> ExtractPublicParams(cases[c].params)],
      params   |-> cases[c].params,
      subcases |-> [defined |-> cases[c].subcases.defined, case |-> c] ]

\* iterate() yielding a RunCase for each subcase of each case.
RECURSIVE RunCasePerSubcase(_, _, _)
RunCasePerSubcase(testPath, cases, c) ==
    IF c > Len(cases) THEN << >>
    ELSE LET n == IF cases[c].subcases.defined
                  THEN Len(cases[c].subcases.list) ELSE 1
         IN  [k \in 1 .. n |-> RunCaseSpecific(testPath, cases, c)]
         \o RunCasePerSubcase(testPath, cases, c + 1)

\* lines 270-279: the loop of iterate() from the c-th case on: one RunCase
\* for each [caseParams, subcases] pair.
RunCases(testPath, cases, c) ==
    [k \in 1 .. Len(cases) - c + 1 |-> RunCaseSpecific(testPath, cases, c + k - 1)]

\* iterate() of a test without cases yielding nothing.
NoDefaultTestCases == ArrayOfCases(<< >>)

\* line 269: this.testCases ??= [[{}, undefined]].
DefaultTestCases ==
    ArrayOfCases(<< [params |-> NoParams, subcases |-> NoIterable] >>)

\* lines 267-280: iterate(), gone through to its end: the assertion on the
\* body, this.testCases ??= [[{}, undefined]], the RunCases.
Iterate ==
    /\ paramTest.calls < MaxBuilderCalls
    /\ LET ok == paramTest.hasFn
           testCases == IF paramTest.testCases.defined
                        THEN paramTest.testCases
                        ELSE DefaultTestCases
       IN  paramTest' = [paramTest EXCEPT
                            !.testCases = IF ok THEN testCases ELSE @,
                            !.yielded = IF ok THEN RunCases(TestPath, testCases.cases, 1)
                                        ELSE @,
                            !.calls = @ + 1,
                            !.last = ParamCall("iterate", ok)]
    /\ UNCHANGED notParamTest

\* lines 382-411: run() of the k-th RunCase yielded: if (this.subcases), the
\* loop over them with one runTest() call for each it goes through, else the
\* one runTest() call.
Run(k) ==
    /\ paramTest.calls < MaxBuilderCalls
    /\ k \in 1 .. Len(paramTest.yielded)
    /\ LET rc == paramTest.yielded[k]
           c == rc.subcases.case
           it == paramTest.testCases.cases[c].subcases
           enumerated == IF rc.subcases.defined THEN Enumerate(it) ELSE << >>
       IN  paramTest' = [paramTest EXCEPT
                            !.testCases.cases[c].subcases = Consumed(@),
                            !.calls = @ + 1,
                            !.last = [ParamCall("run", TRUE) EXCEPT
                                         !.rc = k,
                                         !.enumerated = [defined |-> rc.subcases.defined,
                                                         list |-> enumerated],
                                         !.attempts = IF rc.subcases.defined
                                                      THEN Len(enumerated) ELSE 1]]
    /\ UNCHANGED notParamTest

----------------------------------------------------------------------------
(* The test worker, out/common/runtime/helper/test_worker-worker.js *)

\* Most messages one worker receives.
MaxMessages == 3

\* The query strings of the messages.
Queries == {"q1", "q2"}

\* The worker as the module leaves it (line 10): no message received.
\* handlers holds, in the order of their messages, the calls of the async
\* function set as self.onmessage, each with the number of cases loadCases
\* resolved with for it (-1: not resolved yet) and whether testcase.run() was
\* called; replies what was handed to postMessage.
WorkerInit == [handlers |-> << >>, replies |-> << >>]

\* lines 12-19: a message arrives: the handler starts and goes as far as
\* await loader.loadCases(parseQuery(query)).
OnMessage(query) ==
    /\ Len(worker.handlers) < MaxMessages
    /\ worker' = [worker EXCEPT
                     !.handlers = Append(@, [query |-> query, pc |-> "loading",
                                             cases |-> -1, ran |-> FALSE])]
    /\ UNCHANGED notWorker

\* The assertion letting through every query that resolves to some case.
AssertSomeCase(n) == n >= 1

\* line 20: assert(testcases.length === 1, ...).
AssertOneCase(n) == n = 1

\* lines 19-24: loadCases resolves with n cases: the assertion that n is 1,
\* which ends the handler when it fails, then log.record and testcase.run(),
\* which goes as far as its first await.  Nothing here looks at the handlers
\* of other messages.
LoadCasesResolved(m, n) ==
    /\ m \in 1 .. Len(worker.handlers)
    /\ worker.handlers[m].pc = "loading"
    /\ worker' = [worker EXCEPT
                     !.handlers[m].cases = n,
                     !.handlers[m].ran = AssertOneCase(n),
                     !.handlers[m].pc = IF AssertOneCase(n) THEN "running"
                                        ELSE "failed"]
    /\ UNCHANGED notWorker

\* lines 24-26: run() settles: when it returned, the handler posts
\* { query, result }; when it threw, the handler ends without a reply.
RunSettled(m, outcome) ==
    /\ m \in 1 .. Len(worker.handlers)
    /\ worker.handlers[m].pc = "running"
    /\ worker' = [worker EXCEPT
                     !.handlers[m].pc = IF outcome = "returned" THEN "replied"
                                        ELSE "failed",
                     !.replies = IF outcome = "returned"
                                 THEN Append(@, [query |-> worker.handlers[m].query,
                                                 to |-> m])
                                 ELSE @]
    /\ UNCHANGED notWorker

----------------------------------------------------------------------------
(* Specification *)

Init ==
    /\ hasSubcases \in BOOLEAN
    /\ numSubcases \in (IF hasSubcases THEN 0 .. MaxSubcases ELSE {0})
    /\ expectations \in SeqsUpTo(DeclaredExpectation, MaxExpectations)
    /\ runPc = "start"
    /\ idx = 0
    /\ totalCount = 0
    /\ skipCount = 0
    /\ runEx = NoEx
    /\ runResult = "pending"
    /\ ordering = << >>
    /\ att = [i \in Attempts |-> AttInit]
    /\ hist = [i \in Attempts |-> HistInit]
    /\ recCalls = << >>
    /\ rec = RecInit
    /\ logger = LoggerInit
    /\ group = GroupInit
    /\ ValidationIdle
    /\ builder \in {BuilderInit, UnimplementedTest}
    /\ CheckIdle
    /\ ParamTestIdle
    /\ TableIdle
    /\ BetweenIdle
    /\ worker = WorkerInit

Next ==
    \/ RunStart
    \/ LoopNext
    \/ LoopAwait
    \/ LoopCatch
    \/ LoopTail
    \/ LoopEnd
    \/ Single
    \/ SingleAwait
    \/ Finish
    \/ \E i \in Attempts : Begin(i)
    \/ \E i \in Attempts : InitFixture(i)
    \/ \E i \in Attempts : Body(i)
    \/ \E i \in Attempts : Finalize(i)
    \/ \E i \in Attempts : Catch(i)
    \/ \E i \in Attempts : EndSubCase(i)

Spec == Init /\ [][Next]_vars

\* No run() call is under way.
RunIdle ==
    /\ hasSubcases = FALSE
    /\ numSubcases = 0
    /\ expectations = << >>
    /\ runPc = "idle"
    /\ idx = 0
    /\ totalCount = 0
    /\ skipCount = 0
    /\ runEx = NoEx
    /\ runResult = "pending"
    /\ ordering = << >>
    /\ att = [i \in Attempts |-> AttInit]
    /\ hist = [i \in Attempts |-> HistInit]
    /\ recCalls = << >>
    /\ rec = RecInit

\* Messages logged into one recorder.
LogInit ==
    /\ RunIdle
    /\ logger = LoggerInit
    /\ group = GroupInit
    /\ ValidationIdle
    /\ builder = BuilderInit
    /\ CheckIdle
    /\ ParamTestIdle
    /\ TableIdle
    /\ BetweenIdle
    /\ worker = WorkerInit

LogNext == \E sig \in Signatures : LogMessage(sig)

SpecLog == LogInit /\ [][LogNext]_vars

\* The test() calls made on one group.
GroupSpecInit == LogInit

GroupNext ==
    \/ \E name \in TestNames : Test(name)
    \/ \E k \in 1 .. MaxTestCalls : TestFn(k)
    \/ \E k \in 1 .. MaxTestCalls, testCases \in GroupCasesChoices : TestCases(k, testCases)
    \/ GroupValidate

SpecGroup == GroupSpecInit /\ [][GroupNext]_vars

\* validate() called on a test, with or without a body, for every choice of cases.
ValidationInit ==
    /\ RunIdle
    /\ logger = LoggerInit
    /\ group = GroupInit
    /\ validation \in [hasFn : BOOLEAN, testCases : TestCasesChoices, result : {"none"}]
    /\ builder = BuilderInit
    /\ CheckIdle
    /\ ParamTestIdle
    /\ TableIdle
    /\ BetweenIdle
    /\ worker = WorkerInit

ValidationNext == ValidateTest

SpecValidation == ValidationInit /\ [][ValidationNext]_vars

\* The desc(), fn() and unimplemented() calls made on one TestBuilder.
BuilderSpecInit == LogInit

BuilderNext ==
    \/ \E text \in DescChoices : Desc(text)
    \/ \E f \in TestFns : Fn(f)
    \/ Unimplemented

SpecBuilder == BuilderSpecInit /\ [][BuilderNext]_vars

\* checkElementsEqual called on two arrays, for every choice of the arrays.
CheckInit ==
    /\ RunIdle
    /\ logger = LoggerInit
    /\ group = GroupInit
    /\ ValidationIdle
    /\ builder = BuilderInit
    /\ check \in [actual : TypedArrays, expected : TypedArrays, result : {NoResult}]
    /\ ParamTestIdle
    /\ TableIdle
    /\ BetweenIdle
    /\ worker = WorkerInit

CheckNext == CallCheckElementsEqual

SpecCheck == CheckInit /\ [][CheckNext]_vars

\* checkElementsBetween called on an array and two arrays of bounds, for every
\* choice of the three.
BetweenInit ==
    /\ RunIdle
    /\ logger = LoggerInit
    /\ group = GroupInit
    /\ ValidationIdle
    /\ builder = BuilderInit
    /\ CheckIdle
    /\ ParamTestIdle
    /\ TableIdle
    /\ worker = WorkerInit
    /\ between \in [actual : TypedArrays, expected : TypedArrays \X TypedArrays,
                    result : {NoResult}]

BetweenNext == CallCheckElementsBetween

SpecBetween == BetweenInit /\ [][BetweenNext]_vars

\* generatePrettyTable called on a table, for every choice of its rows and of
\* fillToWidth.
TableInit ==
    /\ RunIdle
    /\ logger = LoggerInit
    /\ group = GroupInit
    /\ ValidationIdle
    /\ builder = BuilderInit
    /\ CheckIdle
    /\ ParamTestIdle
    /\ BetweenIdle
    /\ worker = WorkerInit
    /\ table \in { NewTable(fillToWidth, rows) :
                      fillToWidth \in 1 .. MaxFillToWidth,
                      rows \in UNION { [1 .. n -> TableRows] : n \in RowCounts } }

TableNext == LoopOverColumns

SpecTable == TableInit /\ [][TableNext]_vars

\* generatePrettyTable is synchronous: once called, the loop over the columns
\* runs, turn after turn, until it leaves.
SpecTableFair == SpecTable /\ WF_vars(LoopOverColumns)

\* The calls made on one TestBuilder, with or without a body, and on the
\* RunCases it yields.
CasesInit ==
    /\ RunIdle
    /\ logger = LoggerInit
    /\ group = GroupInit
    /\ ValidationIdle
    /\ builder = BuilderInit
    /\ CheckIdle
    /\ paramTest \in { NewTestBuilder(hasFn) : hasFn \in BOOLEAN }
    /\ TableIdle
    /\ BetweenIdle
    /\ worker = WorkerInit

CasesNext ==
    \/ \E casesIterable \in CasesChoices : Cases(casesIterable)
    \/ \E specs \in SpecsChoices : Subcases(specs)
    \/ \E cases \in BuilderChoices : Params2(cases)
    \/ ValidateParameterized
    \/ Iterate
    \/ \E k \in 1 .. MaxCases : Run(k)

SpecCases == CasesInit /\ [][CasesNext]_vars

\* The messages one worker receives.
WorkerSpecInit == LogInit

WorkerNext ==
    \/ \E query \in Queries : OnMessage(query)
    \/ \E m \in 1 .. MaxMessages, n \in 0 .. 2 : LoadCasesResolved(m, n)
    \/ \E m \in 1 .. MaxMessages, outcome \in {"returned", "threw"} :
          RunSettled(m, outcome)

SpecWorker == WorkerSpecInit /\ [][WorkerNext]_vars

----------------------------------------------------------------------------
(* The lifecycle of one attempt *)

\* The exceptions recorded with rec.threw for an attempt.
ThrewLogged(a) ==
    { a.log[k].ex : k \in { n \in 1 .. Len(a.log) : a.log[n].call = "threw" } }

\* The exceptions handed to the recorder for an attempt, by any call.
HandedToRecorder(a) == { a.log[k].ex : k \in 1 .. Len(a.log) }

\* The exceptions raised in the lifecycle of an attempt.
Raised(a) ==
    { Ex(p, a.outcome[p]) : p \in { q \in Phases : a.outcome[q] \in {"error", "skip"} } }
    \cup (IF a.expected = "skip" /\ a.pc \notin {"idle", "begin"}
          THEN { Ex("expectation", "skip") } ELSE {})

\* Attempt i is over: run() has taken the result of its runTest() call and has
\* handled what it threw.
AttemptOver(i) ==
    \/ i = 0 /\ Settled(att[0]) /\ runPc \in {"finish", "done"}
    \/ i > 0 /\ idx = i /\ runPc = "tail" /\ ~ InLifecycle(att[i])

\* C1: finalize() is invoked exactly once for an attempt whose fixture
\* constructor returned, whatever init and the body did, and never for an
\* attempt whose constructor threw or whose fixture was never constructed.
C1_FinalizeExactlyOnce ==
    \A i \in Attempts :
        LET a == att[i] IN
        /\ a.calls["finalize"] <= 1
        /\ (a.outcome["ctor"] # "ok" => a.calls["finalize"] = 0)
        /\ (Settled(a) /\ a.outcome["ctor"] = "ok" => a.calls["finalize"] = 1)

\* C1 witness: an attempt has settled whose init threw, and finalize() ran once.
C1_Witness ==
    \E i \in Attempts :
        /\ Settled(att[i])
        /\ att[i].outcome["init"] = "error"
        /\ att[i].calls["finalize"] = 1

\* C2: the body is invoked only after init() returned; when init() throws, the
\* body is never invoked and what init threw is what the attempt reports
\* (records with rec.threw, or throws on to run()).
C2_InitOutcomeReported ==
    \A i \in Attempts :
        LET a == att[i] IN
        /\ (a.calls["body"] > 0 => a.outcome["init"] = "ok")
        /\ (Settled(a) /\ a.outcome["init"] \in {"error", "skip"} =>
                /\ a.calls["body"] = 0
                /\ Ex("init", a.outcome["init"]) \in ThrewLogged(a) \cup {a.thrown})

\* C3: run() never throws, and every exception raised in the lifecycle of an
\* attempt has been handed to the recorder once the attempt is over.
C3_NothingPropagates ==
    /\ runResult # "threw"
    /\ \A i \in Attempts :
          AttemptOver(i) => Raised(att[i]) \subseteq HandedToRecorder(att[i])

C5_FinalizeErrorRecorded ==
    \A i \in Attempts :
        Settled(att[i]) /\ att[i].outcome["finalize"] = "error" =>
            Ex("finalize", "error") \in ThrewLogged(att[i])

\* C5 witness: the body threw an error, then finalize() threw an error, and
\* the attempt has settled.
C5_Witness ==
    \E i \in Attempts :
        /\ Settled(att[i])
        /\ att[i].outcome["body"] = "error"
        /\ att[i].outcome["finalize"] = "error"

----------------------------------------------------------------------------
(* Expectation matching *)

\* getExpectedStatus has just been called for attempt i: its result is in
\* att[i].expected, the orderings it got from compareQueries are in ordering.
JustMatched(i) == att[i].pc = "begin"

CurrentDecls == Declarations(expectations, ordering)

CountsIfNotUnordered(d) == d.ordering \in {"Equal", "StrictSuperset", "StrictSubset"}

CountsIfEqualOrSuperset(d) == d.ordering \in {"Equal", "StrictSuperset"}

\* The declarations of the current query that say e, among those at positions K.
Saying(e, K) == { k \in K : CurrentDecls[k].expectation = e }

\* C6 as stated: a declaration counts whenever its ordering is Equal,
\* StrictSuperset or StrictSubset: the expected status is 'pass' exactly when
\* every declaration is Unordered, and leaving the Unordered declarations out
\* of the list does not change it.
C6_AllButUnorderedCount ==
    \A i \in Attempts :
        JustMatched(i) =>
            /\ att[i].expected = "pass"
                  <=> \A k \in 1 .. Len(CurrentDecls) :
                          ~ CountsIfNotUnordered(CurrentDecls[k])
            /\ att[i].expected =
                  GetExpectedStatus(SelectSeq(CurrentDecls, CountsIfNotUnordered))

\* C6 as amended: a declaration counts whenever its ordering is Equal or
\* StrictSuperset; Unordered and StrictSubset declarations are passed over: the
\* expected status is 'pass' exactly when no declaration is Equal or
\* StrictSuperset, and leaving the others out of the list does not change it.
C6_EqualAndSupersetCount ==
    \A i \in Attempts :
        JustMatched(i) =>
            /\ att[i].expected = "pass"
                  <=> \A k \in 1 .. Len(CurrentDecls) :
                          ~ CountsIfEqualOrSuperset(CurrentDecls[k])
            /\ att[i].expected =
                  GetExpectedStatus(SelectSeq(CurrentDecls, CountsIfEqualOrSuperset))

\* C6 witness: the only declaration is a 'skip' for a StrictSubset query, and
\* the expected status is 'pass'.
C6_Witness ==
    \E i \in Attempts :
        /\ JustMatched(i)
        /\ Len(CurrentDecls) = 1
        /\ CurrentDecls[1] = [ordering |-> "StrictSubset", expectation |-> "skip"]
        /\ att[i].expected = "pass"

\* The positions of the declarations that apply to the current query (Equal or
\* StrictSuperset, as in C6 as amended).
Applicable == { k \in 1 .. Len(CurrentDecls) : CountsIfEqualOrSuperset(CurrentDecls[k]) }

\* C7: when at least one applicable declaration says 'skip', the expected
\* status is 'skip', wherever it stands in the list and however many
\* applicable declarations say 'fail'.
C7_SkipWins ==
    \A i \in Attempts :
        JustMatched(i) /\ Saying("skip", Applicable) # {} => att[i].expected = "skip"

\* C7 witness: an applicable 'fail' stands ahead of an applicable 'skip', and
\* the expected status is 'skip'.
C7_Witness ==
    \E i \in Attempts :
        /\ JustMatched(i)
        /\ Len(CurrentDecls) = 2
        /\ 1 \in Saying("fail", Applicable)
        /\ 2 \in Saying("skip", Applicable)
        /\ att[i].expected = "skip"

\* C8: when no applicable declaration says 'skip', the expected status is
\* 'fail' if an applicable declaration says 'fail' and 'pass' if none does
\* (as for the empty list).
C8_FailElsePass ==
    \A i \in Attempts :
        JustMatched(i) /\ Saying("skip", Applicable) = {} =>
            att[i].expected =
                (IF Saying("fail", Applicable) # {} THEN "fail" ELSE "pass")

\* C8 witness: two applicable declarations of different specificity both say
\* 'fail', and the expected status is 'fail'.
C8_Witness ==
    \E i \in Attempts :
        /\ JustMatched(i)
        /\ Len(CurrentDecls) = 2
        /\ CurrentDecls[1] = [ordering |-> "StrictSuperset", expectation |-> "fail"]
        /\ CurrentDecls[2] = [ordering |-> "Equal", expectation |-> "fail"]
        /\ att[i].expected = "fail"

----------------------------------------------------------------------------
(* The subcases of one case *)

IsSubCaseCall(c) == c.call \in {"beginSubCase", "endSubCase"}

SubCaseCalls == SelectSeq(recCalls, IsSubCaseCall)

\* C10: the subcases run one after the other in enumeration order: while an
\* attempt is in its lifecycle, run() is suspended waiting for it, no other
\* attempt is in its lifecycle, the iterations of all subcases before it are
\* over and none after it has begun; beginSubCase and endSubCase alternate on
\* the recorder, with increasing subcase numbers.
C10_SubcasesSequential ==
    /\ \A i \in Attempts :
          InLifecycle(att[i]) =>
              /\ runPc \in {"await", "awaitSingle"}
              /\ i = (IF hasSubcases THEN idx ELSE 0)
              /\ \A j \in Attempts \ {i} : ~ InLifecycle(att[j])
              /\ \A j \in 1 .. i - 1 : hist[j].end # "none"
              /\ \A j \in i + 1 .. MaxSubcases : hist[j].iterations = 0
    /\ \A k \in 1 .. Len(SubCaseCalls) :
          /\ SubCaseCalls[k].call = (IF k % 2 = 1 THEN "beginSubCase" ELSE "endSubCase")
          /\ (k % 2 = 0 => SubCaseCalls[k].att = SubCaseCalls[k - 1].att)
          /\ (k > 2 /\ k % 2 = 1 => SubCaseCalls[k].att > SubCaseCalls[k - 2].att)

\* C10 witness: the second subcase is suspended in finalize() after the first
\* one ran through its lifecycle.
C10_Witness ==
    /\ att[2].pc = "finalize"
    /\ hist[1].end \in {"passed", "failed", "skipped"}

----------------------------------------------------------------------------
(* The fixture instances of one case *)

\* C11 as stated: one fixture instance is constructed per execution of a
\* case, and every subcase body receives that instance.
C11_OneSharedFixture ==
    /\ Constructed(hist) <= 1
    /\ \A i, j \in Attempts :
          hist[i].bodyInst # 0 /\ hist[j].bodyInst # 0 =>
              hist[i].bodyInst = hist[j].bodyInst

\* C11: every runTest() call constructs a fixture instance of its own, at most
\* once: the body of a subcase receives the instance constructed for that
\* subcase, and no two subcases have the same instance.
C11_FixturePerSubcase ==
    /\ \A i \in Attempts :
          /\ att[i].calls["ctor"] <= 1
          /\ (att[i].calls["ctor"] = 0 => att[i].inst = 0)
          /\ (hist[i].body # "none" =>
                  hist[i].bodyInst # 0 /\ hist[i].bodyInst = hist[i].inst)
    /\ \A i, j \in Attempts :
          i # j /\ hist[i].inst # 0 => hist[i].inst # hist[j].inst

\* C11 witness: the bodies of two subcases of one case have run, each on the
\* instance constructed for it.
C11_Witness ==
    /\ hist[1].body # "none"
    /\ hist[2].body # "none"
    /\ hist[1].bodyInst # hist[2].bodyInst

----------------------------------------------------------------------------
(* The result of one case *)

\* run() has called rec.skipped for the case.
MarkedSkipped == \E k \in 1 .. Len(recCalls) : recCalls[k].call = "skipped"

\* The runTest() call of every enumerated subcase threw SkipTestCase to run().
AllSubcasesSkipped == \A i \in 1 .. numSubcases : hist[i].end = "skipped"

\* C12: a case with subcases is marked skipped (rec.skipped, and then the
\* result 'skip') exactly when the runTest() call of every enumerated subcase
\* threw SkipTestCase; rec.skipped is never called while a subcase that did
\* not skip is among those enumerated, and never for a case without subcases.
C12_SkippedIffAllSkipped ==
    /\ MarkedSkipped =>
          hasSubcases /\ runPc \in {"finish", "done"} /\ AllSubcasesSkipped
    /\ runPc = "done" /\ hasSubcases =>
          (MarkedSkipped <=> AllSubcasesSkipped)
    /\ runPc = "done" /\ MarkedSkipped => rec.status = "skip"

\* C12 witness: both subcases of a case skipped, and the case ended as 'skip'.
C12_Witness ==
    /\ runPc = "done"
    /\ numSubcases = 2
    /\ hist[1].end = "skipped"
    /\ hist[2].end = "skipped"
    /\ MarkedSkipped
    /\ rec.status = "skip"

\* C13: in a case with subcases, the result is 'fail' when the body of at
\* least one subcase threw an error that is not a skip, whatever the other
\* subcases did and wherever the failing one stands.
C13_AnyFailureFails ==
    runPc = "done" /\ hasSubcases
        /\ (\E i \in 1 .. numSubcases : hist[i].body = "error")
    => rec.status = "fail"

\* An attempt none of whose steps threw.
CleanAttempt(a) == \A p \in Phases : a.outcome[p] = "ok"

UnexpectedPassWarning == LogEntry("warn", Ex("endSubCase", "unexpectedPass"))

\* C14: when an attempt expected to fail completes cleanly, the
\* UnexpectedPassError of endSubCase is recorded with rec.warn and with no
\* other call, and runTest() returns; a case whose single subcase is expected
\* to fail and passes has the result 'pass', with a warning.
C14_UnexpectedPassIsWarning ==
    /\ \A i \in Attempts :
          LET a == att[i] IN
          Settled(a) /\ a.expected = "fail" /\ CleanAttempt(a) =>
              /\ a.pc = "returned"
              /\ ThrewLogged(a) = {}
              /\ \E k \in 1 .. Len(a.log) : a.log[k] = UnexpectedPassWarning
    /\ runPc = "done" /\ ~ hasSubcases
          /\ att[0].expected = "fail" /\ CleanAttempt(att[0]) =>
              rec.status = "pass" /\ rec.warned
    /\ runPc = "done" /\ numSubcases = 1 /\ hist[1].end = "passed" =>
          rec.status = "pass"

\* C14 witness: the single attempt of a case was expected to fail and
\* completed cleanly, and run() has ended.
C14_Witness ==
    /\ runPc = "done"
    /\ ~ hasSubcases
    /\ att[0].expected = "fail"
    /\ CleanAttempt(att[0])
    /\ rec.warned

\* The start, beginSubCase, endSubCase and finish calls made on the recorder.
IsLifecycleCall(c) == c.call \in {"start", "beginSubCase", "endSubCase", "finish"}

LifecycleCalls == SelectSeq(recCalls, IsLifecycleCall)

----------------------------------------------------------------------------
(* Deduplicated log messages *)

\* The stored messages with a given signature.
Stored(sig) == { k \in 1 .. Len(logger.logs) : logger.logs[k].sig = sig }

\* C16: after n >= 1 log calls with one signature the recorder holds exactly
\* one message with that signature, and its timesSeen is n; it holds none for
\* a signature nothing was logged with, so the calls made with one signature
\* change nothing for another.
C16_TimesSeenCountsLogCalls ==
    \A sig \in Signatures :
        IF logger.logged[sig] = 0
        THEN Stored(sig) = {}
        ELSE /\ Cardinality(Stored(sig)) = 1
             /\ \A k \in Stored(sig) : logger.logs[k].timesSeen = logger.logged[sig]

\* C16 witness: three messages with one signature and one with another were
\* logged: two messages are stored, the first seen three times.
C16_Witness ==
    /\ Len(logger.logs) = 2
    /\ logger.logs[1].timesSeen = 3
    /\ logger.logs[2].timesSeen = 1

----------------------------------------------------------------------------
(* The tests of one group *)

\* C17: no two tests of a group have the same name; a test() call with the
\* name of a test registered before fails with the duplicate-name assertion
\* and adds no test.
C17_TestNamesUnique ==
    /\ \A i, j \in 1 .. Len(group.tests) :
          i # j => Join(group.tests[i].testPath) # Join(group.tests[j].testPath)
    /\ group.last.registered =>
          group.last.result = "duplicate" /\ ~ group.last.added

\* C17 witness: test() was called with the name of the one test registered
\* before, and the group still has one test.
C17_Witness ==
    /\ group.last.registered
    /\ group.last.name = << "a", ",", "b" >>
    /\ Len(group.tests) = 1

----------------------------------------------------------------------------
(* The cases of one test *)

\* The entries of the test under validation.
ValidatedEntries ==
    IF validation.testCases.defined
    THEN Entries(validation.testCases.cases, 1)
    ELSE << >>

Merges(e) == ~ MergeFails(e.caseParams, e.subcaseParams)

PublicString(e) ==
    StringifyPublicParamsUniquely(MergeParams(e.caseParams, e.subcaseParams))

\* Two entries have merged parameters with the same public stringification.
Collide(i, j) ==
    LET es == ValidatedEntries IN
    /\ i # j
    /\ Merges(es[i]) /\ Merges(es[j])
    /\ PublicString(es[i]) = PublicString(es[j])

SomeCollide == \E i, j \in 1 .. Len(ValidatedEntries) : Collide(i, j)

----------------------------------------------------------------------------
(* The body of one test *)

\* C19: of the fn() and unimplemented() calls made on one TestBuilder at most
\* one succeeds: a call made when a body is attached fails, and leaves the
\* body and the description as they were.
C19_OneBodyEver ==
    /\ builder.attached <= 1
    /\ builder.last.op \in {"fn", "unimplemented"}
          /\ builder.last.fnBefore # "undefined" =>
              /\ ~ builder.last.ok
              /\ builder.testFn = builder.last.fnBefore
              /\ builder.description = builder.last.descBefore

\* C19 witness: unimplemented() was called on a test that has a description
\* and a body attached with fn().
C19_Witness ==
    /\ builder.last.op = "unimplemented"
    /\ builder.last.fnBefore = "fnA"
    /\ builder.last.descBefore = String(<< "x" >>)

----------------------------------------------------------------------------
(* Equal contents *)

\* The indices at which the two arrays of the check differ.
Mismatches ==
    { i \in 0 .. Min(Len(check.actual.elements), Len(check.expected.elements)) - 1 :
          At(check.actual, i) # At(check.expected, i) }

SameTypeAndLength ==
    /\ check.actual.type = check.expected.type
    /\ Len(check.actual.elements) = Len(check.expected.elements)

\* C20: for two arrays of the same type and length checkElementsEqual returns
\* undefined exactly when the arrays are equal at every index; otherwise it
\* returns an error whose first index is the smallest index at which they
\* differ and whose last index is the largest.
C20_EqualOrFirstAndLast ==
    check.result # NoResult /\ SameTypeAndLength =>
        IF Mismatches = {}
        THEN check.result.kind = "undefined"
        ELSE /\ check.result.kind = "error"
             /\ check.result.first \in Mismatches
             /\ check.result.last \in Mismatches
             /\ \A i \in Mismatches :
                   check.result.first <= i /\ i <= check.result.last

\* C20 witness: two arrays of three elements that differ at the first and at
\* the last index only were checked.
C20_Witness ==
    /\ check.result.kind = "error"
    /\ SameTypeAndLength
    /\ Mismatches = {0, 2}

----------------------------------------------------------------------------
(* C21: arrays of different element counts.                                *)

\* A check was made on two arrays of one type and different lengths.
SizeMismatch ==
    /\ check.result # NoResult
    /\ check.actual.type = check.expected.type
    /\ Len(check.actual.elements) # Len(check.expected.elements)

----------------------------------------------------------------------------
(* Registration in a group *)

\* The latest call was test(), and it returned a builder.
TestSucceeded == group.last.op = "test" /\ group.last.result = "ok"

\* C25: test(name) succeeds only if name equals its percent-decoding, no test
\* of that name was registered before, and every part of name between the
\* path separators matches the valid-part pattern; the call then appends the
\* new test after the tests registered before it, which keep their order, so
\* that iterate() returns the tests in registration order.  A test() call
\* that fails leaves the tests as they were.
C25_TestAppendsValidNames ==
    /\ TestSucceeded =>
          /\ group.last.name = DecodeURIComponent(group.last.name)
          /\ group.last.name \notin Registered(group.last.before)
          /\ \A part \in { Split(group.last.name)[k] :
                             k \in 1 .. Len(Split(group.last.name)) } :
                ValidQueryPart(part)
          /\ Len(TestGroupIterate(group)) = Len(group.last.before.tests) + 1
          /\ SubSeq(TestGroupIterate(group), 1, Len(group.last.before.tests))
                = group.last.before.tests
          /\ TestGroupIterate(group)[Len(group.tests)].testPath
                = Split(group.last.name)
    /\ group.last.op = "test" /\ group.last.result # "ok" =>
          TestGroupIterate(group) = group.last.before.tests

\* C25 witness: a third test was registered after two others, under a name of
\* two parts.
C25_Witness ==
    /\ TestSucceeded
    /\ Len(group.last.before.tests) = 2
    /\ group.last.name = << "a", ",", "b" >>

\* C26 as stated: a test() call that fails leaves the group as it was, the
\* names seen are the names of the registered tests, and only the name of a
\* registered test is reported as a duplicate.
C26_FailedCallChangesNothing ==
    /\ group.last.op = "test" /\ group.last.result # "ok" =>
          /\ group.seen = group.last.before.seen
          /\ group.tests = group.last.before.tests
    /\ group.seen = Registered(group)
    /\ group.last.result = "duplicate" => group.last.registered

\* C27: validate() of a group fails if one of its tests has no body, with or
\* without cases, and it succeeds only if validate() of every one of its
\* tests succeeds.
C27_GroupValidateChecksEveryTest ==
    group.last.op = "validate" =>
        /\ (\E k \in 1 .. Len(group.tests) : ~ group.tests[k].hasFn) =>
              group.last.result # "ok"
        /\ group.last.result = "ok" <=>
              \A k \in 1 .. Len(group.tests) :
                 Validate(group.tests[k].hasFn, group.tests[k].testCases) = "ok"

\* C27 witness: validate() failed on a group of two tests, the first with a
\* body, the second with neither body nor cases.
C27_Witness ==
    /\ group.last.op = "validate"
    /\ group.last.result = "missingFn"
    /\ Len(group.tests) = 2
    /\ group.tests[1].hasFn
    /\ ~ group.tests[2].hasFn /\ ~ group.tests[2].testCases.defined

----------------------------------------------------------------------------
(* The expected status 'skip' *)

\* The calls of one name made on the recorder for attempt i.
CallsFor(call, i) ==
    Cardinality({ k \in 1 .. Len(recCalls) : recCalls[k] = RecCall(call, i) })

\* runTest() for attempt i was called with the expected status 'skip' and is
\* past its first statements.
SkipExpected(i) ==
    /\ att[i].expected = "skip"
    /\ att[i].pc \in {"catch", "endSubCase", "returned", "threw"}

\* C30: in a runTest() call whose expected status is 'skip' no fixture is
\* constructed and neither init, the body nor finalize is invoked; the
\* recorder's beginSubCase and endSubCase are each called once for it; and
\* when the case has subcases, runTest() throws the SkipTestCase on and the
\* loop counts the attempt as a skipped subcase.
C30_SkipExpectedRunsNothing ==
    \A i \in Attempts :
        SkipExpected(i) =>
            /\ \A p \in Phases : att[i].calls[p] = 0 /\ att[i].outcome[p] = "none"
            /\ att[i].inst = 0 /\ hist[i].inst = 0 /\ hist[i].body = "none"
            /\ CallsFor("beginSubCase", i) = 1
            /\ Settled(att[i]) => CallsFor("endSubCase", i) = 1
            /\ ~ Settled(att[i]) => CallsFor("endSubCase", i) = 0
            /\ att[i].throwSkip /\ Settled(att[i]) =>
                  att[i].pc = "threw" /\ IsSkipTestCase(att[i].thrown)
            /\ att[i].throwSkip /\ runPc = "tail" /\ idx = i =>
                  /\ IterationEnd(att[i]) = "skipped"
                  /\ skipCount =
                        1 + Cardinality({ j \in 1 .. i - 1 : hist[j].end = "skipped" })

\* C30 witness: the second subcase, expected to be skipped, has been counted
\* as skipped after the first one ran its body and passed.
C30_Witness ==
    /\ SkipExpected(2)
    /\ runPc = "tail" /\ idx = 2
    /\ hist[1].end = "passed" /\ hist[1].body = "ok"
    /\ skipCount = 1

----------------------------------------------------------------------------
(* The cases of a test, enumerated more than once *)

\* The latest call was the run of a RunCase, made after a validate() call
\* that went through all the cases of the test and returned.
RanAfterValidate == paramTest.last.op = "run" /\ paramTest.validated.done

\* C22 as stated: whatever call set the cases (cases, params2, subcases), the
\* RunCases that iterate() yields after validate() has gone through the cases
\* are the cases validate() went through, and run() of each of them goes
\* through the subcases validate() went through for that case.
C22_RunEnumeratesWhatValidateDid ==
    RanAfterValidate =>
        /\ Len(paramTest.yielded) = Len(paramTest.validated.cases)
        /\ \A k \in 1 .. Len(paramTest.yielded) :
              paramTest.yielded[k].params = paramTest.validated.cases[k].params
        /\ paramTest.last.enumerated
              = paramTest.validated.cases[paramTest.last.rc].subcases

\* The latest call was iterate(), and it went through.
Iterated == paramTest.last.op = "iterate" /\ paramTest.last.ok

\* C24: iterate() of a test that was never parameterized yields one RunCase,
\* with empty case parameters and without subcases; and run() of a RunCase
\* without subcases makes one runTest() call.
C24_UnparameterizedIsOneCase ==
    /\ Iterated /\ ~ paramTest.last.before.defined =>
          /\ Len(paramTest.yielded) = 1
          /\ paramTest.yielded[1].params = NoParams
          /\ ~ paramTest.yielded[1].subcases.defined
    /\ paramTest.last.op = "run"
          /\ ~ paramTest.yielded[paramTest.last.rc].subcases.defined =>
          paramTest.last.attempts = 1

\* C24 witness: the two calls made on the test are iterate() and the run of
\* the RunCase it yielded, which made one runTest() call.
C24_Witness ==
    /\ paramTest.calls = 2
    /\ paramTest.last.op = "run"
    /\ paramTest.last.attempts = 1
    /\ paramTest.yielded[1].params = NoParams

\* C28: cases() and params2() called on a test whose cases are set, by
\* cases(), params2() or subcases() or by iterate(), fail, and the cases stay
\* as they were.
C28_ParameterizedOnce ==
    paramTest.last.op \in {"cases", "params2"} /\ paramTest.last.before.defined =>
        /\ ~ paramTest.last.ok
        /\ paramTest.testCases = paramTest.last.before

\* C28 witness: cases() failed on a test that its only call before, iterate(),
\* had given the one empty case.
C28_Witness ==
    /\ paramTest.last.op = "cases"
    /\ ~ paramTest.last.ok
    /\ paramTest.calls = 2
    /\ paramTest.testCases.cases = << [params |-> NoParams, subcases |-> NoIterable] >>

\* C29: iterate() yields one RunCase for each case of the test, in the order
\* of the cases, however many subcases a case has; the id of each RunCase is
\* the path of the test with the public parameters of the case.
C29_OneRunCasePerCase ==
    Iterated =>
        /\ Len(paramTest.yielded) = Len(paramTest.testCases.cases)
        /\ \A k \in 1 .. Len(paramTest.yielded) :
              LET params == paramTest.testCases.cases[k].params IN
              /\ paramTest.yielded[k].params = params
              /\ paramTest.yielded[k].id.test = TestPath
              /\ DOMAIN paramTest.yielded[k].id.params = DOMAIN params \ {"_p"}
              /\ \A key \in DOMAIN params \ {"_p"} :
                    paramTest.yielded[k].id.params[key] = params[key]

\* C29 witness: iterate() yielded two RunCases for two cases of two subcases
\* each, the second case with a private parameter.
C29_Witness ==
    /\ Iterated
    /\ Len(paramTest.yielded) = 2
    /\ "_p" \in DOMAIN paramTest.yielded[2].params
    /\ \A k \in 1 .. 2 : Len(paramTest.testCases.cases[k].subcases.list) = 2

----------------------------------------------------------------------------
(* The cases of one worker *)

\* A call of the handler is suspended at one of its two awaits.
Suspended(h) == h.pc \in {"loading", "running"}

\* C23 as stated: the case of a message does not run while the handler of an
\* earlier message of the same worker is suspended in its load or in its run.
C23_CasesNeverInterleave ==
    \A m1, m2 \in 1 .. Len(worker.handlers) :
        m1 < m2 /\ worker.handlers[m2].pc = "running" =>
            ~ Suspended(worker.handlers[m1])

----------------------------------------------------------------------------
(* Skips, counted and recorded *)

\* The loop of run() is over.
AfterLoop == hasSubcases /\ runPc \in {"finish", "done"}

\* C31 as stated: rec.skipped is called for a case only if one of its
\* subcases ran and was counted as skipped.
C31_SkippedOnlyIfSomeSkipped ==
    MarkedSkipped => \E i \in 1 .. numSubcases : hist[i].end = "skipped"

\* C31: run() calls rec.skipped for a case with subcases when skipCount equals
\* totalCount after the loop; a case whose subcases are present and enumerate
\* nothing has both counts at 0 and is marked skipped, with the result
\* 'skip', although no subcase ran; in every other case that is marked
\* skipped at least one subcase ran and was counted as skipped.
C31_NoSubcasesIsSkipped ==
    /\ AfterLoop => (MarkedSkipped <=> skipCount = totalCount)
    /\ AfterLoop /\ numSubcases = 0 => MarkedSkipped /\ totalCount = 0
    /\ runPc = "done" /\ hasSubcases /\ numSubcases = 0 => rec.status = "skip"
    /\ MarkedSkipped /\ numSubcases > 0 =>
          \E i \in 1 .. numSubcases : hist[i].end = "skipped"

\* C31 witness: run() has returned for a case whose subcases enumerate
\* nothing, and rec.skipped was called.
C31_Witness ==
    /\ runPc = "done"
    /\ hasSubcases /\ numSubcases = 0
    /\ MarkedSkipped
    /\ recCalls = << CaseCall("start"), CaseCall("skipped"), CaseCall("finish") >>

\* The subcases before the i-th that were counted as skipped.
SkippedBefore(i) == Cardinality({ j \in 1 .. i - 1 : hist[j].end = "skipped" })

\* C32 as stated: when the constructor, init or the body of a subcase of a
\* case with subcases raises SkipTestCase, no later step of that subcase runs
\* but finalize and endSubCase, nothing is handed to rec.threw for it, the
\* skip is recorded as an info message, and the skip count grows by one.
C32_SkipIsCountedNotFailed ==
    \A i \in 1 .. numSubcases :
        AttemptOver(i) /\ (\E p \in {"ctor", "init", "body"} : att[i].outcome[p] = "skip") =>
            /\ att[i].outcome["init"] = "skip" => att[i].calls["body"] = 0
            /\ att[i].outcome["ctor"] = "skip" =>
                  \A p \in {"init", "body", "finalize"} : att[i].calls[p] = 0
            /\ CallsFor("endSubCase", i) = 1
            /\ ThrewLogged(att[i]) = {}
            /\ \E k \in 1 .. Len(att[i].log) :
                  att[i].log[k].call = "info" /\ att[i].log[k].ex.kind = "skip"
            /\ skipCount = 1 + SkippedBefore(i)

\* C33 as stated: a subcase whose body threw an error that is not a skip is
\* recorded as failed and is not counted as skipped, also when its finalize()
\* threw SkipTestCase after the body.
C33_FailedBodyIsNotSkipped ==
    \A i \in 1 .. numSubcases :
        hist[i].body = "error" /\ hist[i].end # "none" => hist[i].end = "failed"

----------------------------------------------------------------------------
(* The order of the declarations *)

\* The ways to reorder n declarations.
Reorderings(n) ==
    { f \in [1 .. n -> 1 .. n] : \A a, b \in 1 .. n : f[a] = f[b] => a = b }

\* The declarations of this run(), reordered by f, as getExpectedStatus sees
\* them for the query it was just called with.
Reordered(f) ==
    Declarations([k \in 1 .. Len(expectations) |-> expectations[f[k]]],
                 [k \in 1 .. Len(expectations) |-> ordering[f[k]]])

\* C34: the expected status getExpectedStatus returns for a query is the one
\* it returns for every reordering of the same declarations.
C34_OrderOfDeclarationsIrrelevant ==
    \A i \in Attempts :
        att[i].pc = "begin" =>
            \A f \in Reorderings(Len(expectations)) :
                GetExpectedStatus(Reordered(f)) = att[i].expected

\* C34 witness: a 'fail' declared ahead of a 'skip', both matching the query:
\* the expected status is 'skip', as it is with the two in the other order.
C34_Witness ==
    /\ \E i \in Attempts : att[i].pc = "begin" /\ att[i].expected = "skip"
    /\ expectations = << "fail", "skip" >>
    /\ ordering = << "Equal", "StrictSuperset" >>

----------------------------------------------------------------------------
(* Running a test registered with unimplemented() *)

\* The case run is the case of a test registered with unimplemented().
RunsUnimplemented == builder.testFn = "unimplemented"

\* The fixture's own steps of an attempt all returned.
FixtureReturned(a) == \A p \in {"ctor", "init", "finalize"} : a.outcome[p] = "ok"

RepliesTo(m) == { k \in 1 .. Len(worker.replies) : worker.replies[k].to = m }

\* C36: the worker posts at most one reply for a message, with the query
\* string of that message, and only after run() of its case has returned;
\* for a message whose query resolves to no case or to more than one, no
\* case is run and no reply is posted.
C36_OneReplyAfterRun ==
    \A m \in 1 .. Len(worker.handlers) :
        LET h == worker.handlers[m] IN
        /\ Cardinality(RepliesTo(m)) <= 1
        /\ \A k \in RepliesTo(m) :
              /\ worker.replies[k].query = h.query
              /\ h.pc = "replied" /\ h.ran /\ h.cases = 1
        /\ h.pc \in {"loading", "running", "failed"} => RepliesTo(m) = {}
        /\ h.cases \in {0, 2} => ~ h.ran /\ h.pc = "failed" /\ RepliesTo(m) = {}

\* C36 witness: of three messages the second, whose query resolved to two
\* cases, got no reply; the third was answered before the first, each with
\* its own query.
C36_Witness ==
    /\ Len(worker.handlers) = 3
    /\ worker.handlers[2].cases = 2
    /\ worker.handlers[1].query = "q1" /\ worker.handlers[3].query = "q2"
    /\ worker.replies = << [query |-> "q2", to |-> 3], [query |-> "q1", to |-> 1] >>

----------------------------------------------------------------------------
(* The elements printed with a failed check *)

\* The indices printed: printActual = actual.subarray(start, end).
PrintedIndices == check.result.start .. check.result.end - 1

\* C37: when the check fails on an array of length size with first failed
\* index f and last failed index l, the elements printed are those of the
\* indices from max(0, f - 1) up to, not including, min(size, l + 2): every
\* index from f to l, the one index before f when f > 0, the one index after
\* l when l < size - 1, and no other.
C37_PrintWindow ==
    check.result.kind = "error" =>
        LET size == Len(check.actual.elements)
            f == check.result.first
            l == check.result.last
        IN  /\ check.result.start = (IF f > 0 THEN f - 1 ELSE 0)
            /\ check.result.end = (IF l < size - 1 THEN l + 2 ELSE size)
            /\ PrintedIndices \subseteq 0 .. size - 1
            /\ PrintedIndices =
                  (f .. l) \cup (IF f > 0 THEN {f - 1} ELSE {})
                           \cup (IF l < size - 1 THEN {l + 1} ELSE {})

\* C37 witness: of three elements the middle one alone failed, and all three
\* are printed.
C37_Witness ==
    /\ check.result.kind = "error"
    /\ Len(check.actual.elements) = 3
    /\ check.result.first = 1 /\ check.result.last = 1
    /\ PrintedIndices = {0, 1, 2}

----------------------------------------------------------------------------
(* Between two arrays of bounds *)

\* The two arrays of bounds of the call, swapped.
Swapped == << between.expected[2], between.expected[1] >>

\* The indices of actual at which both arrays of bounds have an element.
Bounded ==
    { i \in 0 .. Len(between.actual.elements) - 1 :
          i < Len(between.expected[1].elements) /\ i < Len(between.expected[2].elements) }

\* The value of actual at index i is between the two bounds of that index,
\* whichever of the two is the smaller.
Within(i) ==
    LET v == At(between.actual, i)
        a == At(between.expected[1], i)
        b == At(between.expected[2], i)
    IN  (a <= v /\ v <= b) \/ (b <= v /\ v <= a)

\* C40: checkElementsBetween is symmetric in its two arrays of bounds: it
\* returns no error exactly when at every index of actual the value lies
\* between the smaller and the larger of the two bounds, both included, and
\* the call with the two arrays swapped accepts and rejects the same indices
\* and returns the same outcome with the same failed indices.
C40_BetweenIsSymmetric ==
    between.result # NoResult =>
        /\ between.result.kind = "undefined" <=>
              \A i \in 0 .. Len(between.actual.elements) - 1 :
                  i \in Bounded /\ Within(i)
        /\ BetweenPredicate(between.actual, Swapped) =
              BetweenPredicate(between.actual, between.expected)
        /\ CheckElementsBetween(between.actual, Swapped) = between.result

\* C40 witness: a call on three elements passed whose first array of bounds
\* is above its second one at one index and below it at another.
C40_Witness ==
    /\ between.result.kind = "undefined"
    /\ Len(between.actual.elements) = 3
    /\ \E i, j \in Bounded :
          /\ At(between.expected[1], i) > At(between.expected[2], i)
          /\ At(between.expected[1], j) < At(between.expected[2], j)

----------------------------------------------------------------------------
(* The table printed with a failed check *)

\* The string of a row ends with the ellipsis.
HasEllipsis(row) ==
    LET s == table.rowStrings[row] IN
    Len(s) >= Len(Ellipsis) /\ SubSeq(s, Len(s) - Len(Ellipsis) + 1, Len(s)) = Ellipsis

\* The row still has cells that were not printed.
HasUnprintedCells(row) ==
    table.rows[row].infinite \/ Len(table.rows[row].cells) > table.columns

\* C38: generatePrettyTable appends the trailing ellipsis ' ...' to a row if
\* and only if the row still has cells that were not printed; a table whose
\* data ends exactly at the column that reaches fillToWidth gets no ellipsis.
C38_EllipsisIffTruncated ==
    table.pc = "returned" =>
        \A row \in 1 .. Len(table.rows) : HasEllipsis(row) <=> HasUnprintedCells(row)

\* C39: generatePrettyTable called with at least one row and a positive
\* fillToWidth returns, whether or not its rows end, and never consumes more
\* than fillToWidth cells from a row: every column printed adds at least 1 to
\* the total width.
C39_Terminates ==
    /\ [](table.pc # "idle" /\ Len(table.rows) >= 1 =>
             /\ table.columns <= table.fillToWidth
             /\ table.totalTableWidth >= table.columns)
    /\ (table.pc = "loop" /\ Len(table.rows) >= 1) ~> (table.pc = "returned")

\* C39 witness: the call returned after fillToWidth = 3 columns of a table
\* that has a row that never ends.
C39_Witness ==
    /\ table.pc = "returned"
    /\ table.fillToWidth = 3
    /\ table.columns = 3
    /\ \E row \in 1 .. Len(table.rows) : table.rows[row].infinite

====
